---- MODULE Spec2Model ----
(***************************************************************************)
(* Staged log store and URL-fingerprint index of smart_feeds               *)
(* (src/src/tools/storage.py, src/src/tools/dedup.py).                     *)
(*                                                                         *)
(* Text is modelled as a sequence of tokens.  A token is one character or  *)
(* one fixed character group of the program's file formats:                *)
(*   "NL" = "\n", "SP" = " ", "DASH" = "---", "HTTP" = "http:", "/",       *)
(*   "(", ")", "[", "]", "H2" = "## ", "LBL" = "**Summary:** ",            *)
(*   "NOTITLE" = "No Title", "..." and the letters "a", "b", "t", "x", "y".*)
(* The separator "\n---\n" is the three tokens NL DASH NL, and the scheme  *)
(* "http://" the three tokens HTTP / /.                                    *)
(***************************************************************************)
EXTENDS Integers, Sequences, FiniteSets, TLC

\* ------------------------------------------------------------------------
\* Bounds of the model
\* ------------------------------------------------------------------------
MaxItems == 2      \* longest item list passed to one call
MaxEntries == 2    \* most entries one stage file receives
MaxBatch == 2      \* largest batch size / offset tried by a batch read
MaxFetched == 3    \* longest item list passed to one deduplicate_items call

\* ------------------------------------------------------------------------
\* Text helpers (Python str methods on token sequences)
\* ------------------------------------------------------------------------
SEPARATOR == <<"NL", "DASH", "NL">>

IsSpace(c) == c \in {"NL", "SP"}

\* content[i:i+len(p)] == p
OccursAt(t, i, p) ==
    /\ i >= 1
    /\ i + Len(p) - 1 <= Len(t)
    /\ \A k \in 1..Len(p) : t[i + k - 1] = p[k]

\* t[a-1:b] in Python terms: the tokens a..b (empty when a > b)
Slice(t, a, b) == IF a > b THEN <<>> ELSE SubSeq(t, a, b)

RECURSIVE CountFrom(_, _, _)
CountFrom(t, p, i) ==
    IF i > Len(t) THEN 0
    ELSE IF OccursAt(t, i, p) THEN 1 + CountFrom(t, p, i + Len(p))
    ELSE CountFrom(t, p, i + 1)

\* str.count: non-overlapping occurrences, scanned left to right
StrCount(t, p) == CountFrom(t, p, 1)

RECURSIVE SplitFrom(_, _, _, _)
SplitFrom(t, p, start, i) ==
    IF i > Len(t) THEN << Slice(t, start, Len(t)) >>
    ELSE IF OccursAt(t, i, p)
         THEN << Slice(t, start, i - 1) >> \o SplitFrom(t, p, i + Len(p), i + Len(p))
         ELSE SplitFrom(t, p, start, i + 1)

\* str.split(sep)
StrSplit(t, p) == SplitFrom(t, p, 1, 1)

RECURSIVE StrJoin(_, _)
\* sep.join(parts)
StrJoin(parts, sep) ==
    IF Len(parts) = 0 THEN <<>>
    ELSE IF Len(parts) = 1 THEN parts[1]
    ELSE parts[1] \o sep \o StrJoin(Tail(parts), sep)

RECURSIVE RStripSet(_, _)
RStripSet(t, cs) ==
    IF Len(t) > 0 /\ t[Len(t)] \in cs THEN RStripSet(SubSeq(t, 1, Len(t) - 1), cs)
    ELSE t

RECURSIVE LStripSet(_, _)
LStripSet(t, cs) ==
    IF Len(t) > 0 /\ t[1] \in cs THEN LStripSet(Tail(t), cs)
    ELSE t

\* str.strip(): whitespace off both ends
StrStrip(t) == LStripSet(RStripSet(t, {"NL", "SP"}), {"NL", "SP"})

\* url.rstrip("/"): every trailing slash
RStripSlash(t) == RStripSet(t, {"/"})

\* ------------------------------------------------------------------------
\* storage._extract_urls_from_markdown
\* ------------------------------------------------------------------------
\* [^\s\)]
UrlChar(c) == c \notin {"NL", "SP", ")"}

\* https?://
SchemeAt(t, i) == OccursAt(t, i, <<"HTTP", "/", "/">>)

RECURSIVE RunEnd(_, _)
\* last index of the maximal run of [^\s\)] starting at j (j-1 when empty)
RunEnd(t, j) ==
    IF j <= Len(t) /\ UrlChar(t[j]) THEN RunEnd(t, j + 1) ELSE j - 1

\* the positions j of "](" at which \[.*?\]\((https?://[^\s\)]+)\) started at
\* i can complete: .*? crosses no newline, the url run is non-empty and is
\* followed by ")"
MdCloseAt(t, i, j) ==
    /\ j > i
    /\ \A k \in (i + 1)..(j - 1) : t[k] # "NL"
    /\ OccursAt(t, j, <<"]", "(">>)
    /\ SchemeAt(t, j + 2)
    /\ RunEnd(t, j + 5) >= j + 5
    /\ RunEnd(t, j + 5) + 1 <= Len(t)
    /\ t[RunEnd(t, j + 5) + 1] = ")"

MdCloses(t, i) == { j \in (i + 1)..Len(t) : MdCloseAt(t, i, j) }

MdMatchAt(t, i) == t[i] = "[" /\ MdCloses(t, i) # {}

\* the lazy .*? takes the first position that completes
MdClose(t, i) == CHOOSE j \in MdCloses(t, i) : \A k \in MdCloses(t, i) : j <= k

RECURSIVE MdLinksFrom(_, _)
\* re.findall(md_link_pattern, content): the captured urls
MdLinksFrom(t, i) ==
    IF i > Len(t) THEN {}
    ELSE IF MdMatchAt(t, i)
         THEN LET j == MdClose(t, i)
                  e == RunEnd(t, j + 5)
              IN  { SubSeq(t, j + 2, e) } \cup MdLinksFrom(t, e + 2)
         ELSE MdLinksFrom(t, i + 1)

\* (?<!\()https?://[^\s\)]+ at i
BareMatchAt(t, i) ==
    /\ SchemeAt(t, i)
    /\ (i = 1 \/ t[i - 1] # "(")
    /\ RunEnd(t, i + 3) >= i + 3

RECURSIVE BareUrlsFrom(_, _)
\* re.findall(url_pattern, content)
BareUrlsFrom(t, i) ==
    IF i > Len(t) THEN {}
    ELSE IF BareMatchAt(t, i)
         THEN { SubSeq(t, i, RunEnd(t, i + 3)) } \cup BareUrlsFrom(t, RunEnd(t, i + 3) + 1)
         ELSE BareUrlsFrom(t, i + 1)

_extract_urls_from_markdown(content) ==
    MdLinksFrom(content, 1) \cup BareUrlsFrom(content, 1)

\* ------------------------------------------------------------------------
\* storage._clean_title
\* ------------------------------------------------------------------------
TITLE_MAX == 80
TITLE_KEEP == 77

RECURSIVE Html2TextInline(_)
\* html2text on a title: the inline tags <b>, </b> become the emphasis
\* marker "**"; a newline in running text is whitespace. Token by token,
\* the two halves of the text apart.
Html2TextInline(t) ==
    IF Len(t) = 0 THEN <<>>
    ELSE IF Len(t) = 1
    THEN (IF t[1] \in {"<b>", "</b>"} THEN <<"*", "*">>
          ELSE IF t[1] = "NL" THEN <<"SP">>
          ELSE t)
    ELSE Html2TextInline(SubSeq(t, 1, Len(t) \div 2))
             \o Html2TextInline(SubSeq(t, (Len(t) \div 2) + 1, Len(t)))

RECURSIVE CollapseBefore(_, _)
\* a whitespace token goes when whitespace follows it; follow tells
\* whether whitespace follows the last token of t
CollapseBefore(t, follow) ==
    IF Len(t) = 0 THEN <<>>
    ELSE IF Len(t) = 1
    THEN (IF IsSpace(t[1]) THEN (IF follow THEN <<>> ELSE <<"SP">>) ELSE t)
    ELSE CollapseBefore(SubSeq(t, 1, Len(t) \div 2), IsSpace(t[(Len(t) \div 2) + 1]))
             \o CollapseBefore(SubSeq(t, (Len(t) \div 2) + 1, Len(t)), follow)

\* .replace("\n", " ") and re.sub(r'\s+', ' ', ...)
CollapseSpaces(t) == CollapseBefore(t, FALSE)

\* the title after the cleaning of lines 88-104, before the cap
CleanedTitle(title) == StrStrip(CollapseSpaces(StrStrip(Html2TextInline(title))))

\* the cap cuts at TITLE_MAX characters
CleanTitleCutsAtMax(title) ==
    IF Len(title) = 0 THEN <<"NOTITLE">>
    ELSE LET clean == CleanedTitle(title)
         IN  IF Len(clean) > TITLE_MAX
             THEN SubSeq(clean, 1, TITLE_MAX) \o <<"...">>
             ELSE clean

\* title inputs are built from one-character tokens, so Len is len()
_clean_title(title) ==
    IF Len(title) = 0 THEN <<"NOTITLE">>
    ELSE LET clean == StrStrip(CollapseSpaces(StrStrip(Html2TextInline(title))))
         IN  IF Len(clean) > TITLE_MAX
             THEN SubSeq(clean, 1, TITLE_KEEP) \o <<"...">>
             ELSE clean

\* ------------------------------------------------------------------------
\* storage._append_to_log
\* ------------------------------------------------------------------------
\* An item is a record of texts; the empty text stands for an absent (or
\* empty) field.  "summary" is the one extra field carried by the model; it
\* is written verbatim, as every field other than title, url and content.
MkItem(u, t, s) == [url |-> u, title |-> t, summary |-> s]

\* the block of one item, lines 168-197
RenderBlock(item) ==
    SEPARATOR \o <<"H2", "[">> \o _clean_title(item.title) \o <<"]", "(">>
        \o item.url \o <<")", "NL">>
        \o (IF item.summary # <<>> THEN <<"LBL">> \o item.summary \o <<"NL">> ELSE <<>>)

\* lines 153-160
IsDuplicateUrl(url, existing_urls) ==
    \E e \in existing_urls : RStripSlash(e) = RStripSlash(url)

RECURSIVE AppendLoop(_, _, _)
\* the for loop of lines 147-201; acc carries existing_urls,
\* new_content_blocks, added_count and skipped_count
AppendLoop(items, i, acc) ==
    IF i > Len(items) THEN acc
    ELSE LET item == items[i] IN
         IF item.url = <<>> THEN AppendLoop(items, i + 1, acc)
         ELSE IF IsDuplicateUrl(item.url, acc.existing_urls)
              THEN AppendLoop(items, i + 1, [acc EXCEPT !.skipped = @ + 1])
              ELSE AppendLoop(items, i + 1,
                     [existing_urls |-> acc.existing_urls \cup {item.url},
                      blocks        |-> Append(acc.blocks, RenderBlock(item)),
                      kept          |-> Append(acc.kept, item),
                      added         |-> acc.added + 1,
                      skipped       |-> acc.skipped])

NoFile == [exists |-> FALSE, content |-> <<>>]

\* the file opened with "w" instead of "a"
AppendResultRewrites(f, acc) ==
    IF acc.blocks = <<>>
    THEN [file |-> f, kept |-> <<>>, all_duplicates |-> TRUE,
          added |-> acc.added, skipped |-> acc.skipped]
    ELSE [file |-> [exists |-> TRUE,
                    content |-> StrJoin(acc.blocks, <<"NL">>) \o <<"NL", "NL">>],
          kept |-> acc.kept, all_duplicates |-> FALSE,
          added |-> acc.added, skipped |-> acc.skipped]

\* the new blocks written in front of the file
AppendResultPrepends(f, acc) ==
    IF acc.blocks = <<>>
    THEN [file |-> f, kept |-> <<>>, all_duplicates |-> TRUE,
          added |-> acc.added, skipped |-> acc.skipped]
    ELSE [file |-> [exists |-> TRUE,
                    content |-> StrJoin(acc.blocks, <<"NL">>) \o <<"NL", "NL">> \o f.content],
          kept |-> acc.kept, all_duplicates |-> FALSE,
          added |-> acc.added, skipped |-> acc.skipped]

\* lines 203-209 on the outcome acc of the loop
AppendResult(f, acc) ==
    IF acc.blocks = <<>>
    THEN [file |-> f, kept |-> <<>>, all_duplicates |-> TRUE,
          added |-> acc.added, skipped |-> acc.skipped]
    ELSE [file |-> [exists |-> TRUE,
                    content |-> f.content \o StrJoin(acc.blocks, <<"NL">>) \o <<"NL", "NL">>],
          kept |-> acc.kept, all_duplicates |-> FALSE,
          added |-> acc.added, skipped |-> acc.skipped]

\* the counts that the text returned at line 204 or line 209 states
AppendMessage(items, r) ==
    IF r.all_duplicates THEN [added |-> 0, skipped |-> Len(items)]
    ELSE [added |-> r.added, skipped |-> r.skipped]

\* result of _append_to_log(items, filename) on the file f: the file
\* afterwards, the items whose blocks were written, and the counts reported
_append_to_log(items, f) ==
    AppendResult(f, AppendLoop(items, 1,
        [existing_urls |-> IF f.exists THEN _extract_urls_from_markdown(f.content) ELSE {},
         blocks |-> <<>>, kept |-> <<>>, added |-> 0, skipped |-> 0]))

\* ------------------------------------------------------------------------
\* storage.read_raw_log, get_raw_item_count, read_raw_items_batch
\* ------------------------------------------------------------------------
NO_RAW_TODAY == <<"No raw items found for today.">>
NO_RAW == <<"No raw items found.">>

NO_CURATED_TODAY == <<"No curated items found for today.">>

ReadRawEmptyWhenAbsent(f) == f.content

read_raw_log(f) == IF f.exists THEN f.content ELSE NO_RAW_TODAY

read_curated_log(f) == IF f.exists THEN f.content ELSE NO_CURATED_TODAY

get_raw_item_count(f) ==
    LET content == read_raw_log(f)
    IN  IF content = <<>> \/ content = NO_RAW_TODAY THEN 0
        ELSE StrCount(content, SEPARATOR) + 1

\* [i for i in items if i.strip()]
NonBlank(parts) == SelectSeq(parts, LAMBDA p : StrStrip(p) # <<>>)

\* the non-blank blocks read_raw_items_batch slices, lines 268-271
RawBlocks(f) == NonBlank(StrSplit(read_raw_log(f), SEPARATOR))

\* items[offset : offset + limit] for offset, limit >= 0
PySlice(s, offset, limit) ==
    Slice(s, offset + 1, IF offset + limit < Len(s) THEN offset + limit ELSE Len(s))

read_raw_items_batch(f, offset, limit) ==
    LET content == read_raw_log(f)
    IN  IF content = <<>> \/ content = NO_RAW_TODAY THEN NO_RAW
        ELSE IF offset >= Len(RawBlocks(f)) THEN <<>>
        ELSE StrJoin(PySlice(RawBlocks(f), offset, limit), SEPARATOR)

\* ------------------------------------------------------------------------
\* Inputs
\* ------------------------------------------------------------------------
Stages == {"raw", "curated", "filtered"}

UrlA == <<"HTTP", "/", "/", "a">>           \* http://a
UrlASlash == <<"HTTP", "/", "/", "a", "/">> \* http://a/
UrlB == <<"HTTP", "/", "/", "b">>           \* http://b
UrlBParen == <<"HTTP", "/", "/", "b", ")">> \* http://b)
NoUrl == <<>>

RuleText == <<"x", "NL", "DASH", "NL", "y">> \* "x\n---\ny"

Items ==
    { MkItem(UrlA, <<"t">>, <<>>),
      MkItem(UrlASlash, <<"t">>, <<>>),
      MkItem(UrlB, <<>>, RuleText),
      MkItem(UrlBParen, <<"t">>, <<"x">>),
      MkItem(NoUrl, <<"t">>, <<"x">>) }

ItemLists == UNION { [1..n -> Items] : n \in 0..MaxItems }
FetchLists == UNION { [1..n -> Items] : n \in 0..MaxFetched }

\* ------------------------------------------------------------------------
\* State
\* ------------------------------------------------------------------------
VARIABLES
    files,      \* stage -> the day's file of the stage: [exists, content]
    entries,    \* stage -> the items whose blocks were written, in order (all days)
    appendRes,  \* what the last stage append was given and what it reported
    readRes,    \* what the last read of the raw stage was asked and returned,
                \* and how many items the raw stage held then (total)
    index,      \* seen_urls.txt: [exists, lines, decodable]
    filterRes,  \* what the last deduplicate_items call was given and returned
    age,        \* url returned by a call -> fingerprints appended since (capped)
    pc,         \* where the running deduplicate_items call stands
    fn,         \* its locals: items, unique_items, new_hashes, written, lines ...
    buf,        \* lines written to the open file object and not yet flushed
    unit,       \* the running fetch unit: deduplicate_items, then append_to_raw_log
    rcall,      \* the retried call: max_retries, initial_delay, the operation's outcomes
    exec,       \* executor -> where it stands: pc, attempt, calls, delays, result
    verdict,    \* what the last is_retryable_error call was given and returned
    summary,    \* day -> the summary file of the day: [exists, content]
    today,      \* datetime.date.today()
    summaryRes, \* day -> the contents save_daily_summary was given that day, in order
    titleRes,   \* what the last _clean_title call was given and returned
    run,        \* the pipeline run of main.py: stage, unit, attempt, units started
    par         \* fetch unit -> where it stands when two units run side by side

logVars == <<files, entries, appendRes, readRes>>
retryVars == <<rcall, exec, verdict>>
summaryVars == <<summary, today, summaryRes>>
runVars == <<titleRes, run, par>>
pipelineVars == <<retryVars, summaryVars, runVars>>

NoCall == [op |-> "none"]

InitLog ==
    /\ files = [s \in Stages |-> NoFile]
    /\ entries = [s \in Stages |-> <<>>]
    /\ appendRes = NoCall
    /\ readRes = NoCall

TotalEntries == Len(entries["raw"]) + Len(entries["curated"]) + Len(entries["filtered"])

\* append_to_raw_log / append_to_curated_log / append_to_filtered_log
AppendToLog(stage, items) ==
    /\ TotalEntries + Len(items) <= MaxEntries
    /\ \E r \in {_append_to_log(items, files[stage])} :
       /\ files' = [files EXCEPT ![stage] = r.file]
       /\ entries' = [entries EXCEPT ![stage] = @ \o r.kept]
       /\ appendRes' = [op |-> "append", stage |-> stage, given |-> Len(items),
                        items |-> items,
                        all_duplicates |-> r.all_duplicates,
                        added |-> r.added, skipped |-> r.skipped,
                        message |-> AppendMessage(items, r)]
       /\ UNCHANGED <<readRes, index, filterRes, age, pc, fn, buf, unit, pipelineVars>>

\* read_raw_log()
ReadRawLog ==
    /\ readRes' = [op |-> "read", stage |-> "raw", file |-> files["raw"],
                   result |-> read_raw_log(files["raw"])]
    /\ UNCHANGED <<files, entries, appendRes, index, filterRes, age, pc, fn, buf, unit, pipelineVars>>

\* read_curated_log()
ReadCuratedLog ==
    /\ readRes' = [op |-> "read", stage |-> "curated", file |-> files["curated"],
                   result |-> read_curated_log(files["curated"])]
    /\ UNCHANGED <<files, entries, appendRes, index, filterRes, age, pc, fn, buf, unit, pipelineVars>>

\* get_raw_item_count()
CountRaw ==
    /\ readRes' = [op |-> "count", total |-> Len(entries["raw"]),
                   result |-> get_raw_item_count(files["raw"])]
    /\ UNCHANGED <<files, entries, appendRes, index, filterRes, age, pc, fn, buf, unit, pipelineVars>>

\* read_raw_items_batch(offset, limit)
ReadBatch(offset, limit) ==
    /\ readRes' = [op |-> "batch", offset |-> offset, limit |-> limit,
                   total |-> Len(entries["raw"]),
                   result |-> read_raw_items_batch(files["raw"], offset, limit)]
    /\ UNCHANGED <<files, entries, appendRes, index, filterRes, age, pc, fn, buf, unit, pipelineVars>>

NextLog ==
    \/ \E stage \in Stages, items \in ItemLists : AppendToLog(stage, items)
    \/ CountRaw
    \/ \E offset \in 0..MaxBatch, limit \in 1..MaxBatch : ReadBatch(offset, limit)

UrlBParenSlash == UrlBParen \o <<"/">>        \* http://b)/

\* urls with and without a trailing slash
StageItems ==
    { MkItem(UrlA, <<"t">>, <<>>),
      MkItem(UrlASlash, <<"t">>, <<>>),
      MkItem(UrlBParen, <<"t">>, <<>>),
      MkItem(UrlBParenSlash, <<"t">>, <<>>) }

StageLists == UNION { [1..n -> StageItems] : n \in 0..MaxItems }

NextStage ==
    \/ \E stage \in Stages, items \in StageLists : AppendToLog(stage, items)
    \/ ReadRawLog
    \/ ReadCuratedLog
    \/ CountRaw

UrlASlashSlash == UrlA \o <<"/", "/">>        \* http://a//

\* an item whose summary text mentions the url of another item
Mentions(u) == <<"see", "SP">> \o u

\* urls that differ by two trailing slashes, and a url inside a field
TextItems ==
    { MkItem(UrlA, <<"t">>, <<>>),
      MkItem(UrlASlashSlash, <<"t">>, <<>>),
      MkItem(UrlB, <<"t">>, <<>>),
      MkItem(UrlA, <<"t">>, Mentions(UrlB)) }

TextLists == UNION { [1..n -> TextItems] : n \in 0..MaxItems }

NextText == \E stage \in Stages, items \in TextLists : AppendToLog(stage, items)

\* ------------------------------------------------------------------------
\* dedup: the fingerprint index seen_urls.txt
\* ------------------------------------------------------------------------
\* The cap of dedup.py line 39 is 100000; the model runs with a small cap so
\* that rotation happens within a few calls.
MAX_LINES == 2

HASH_SPACE == 5

TokenCode(c) ==
    CASE c = "HTTP" -> 1 [] c = "/" -> 2 [] c = "a" -> 3 [] c = "b" -> 4
      [] c = ")" -> 5 [] OTHER -> 6

RECURSIVE HashFrom(_, _, _)
HashFrom(t, i, h) ==
    IF i > Len(t) THEN h ELSE HashFrom(t, i + 1, (h * 4 + TokenCode(t[i])) % HASH_SPACE)

\* md5(url).hexdigest()[:8]: a fixed function of the url's characters into a
\* finite range, so distinct urls can collide
_compute_hash(url) == HashFrom(url, 1, 0)

\* The index file: whether it exists, its lines (one fingerprint each) and
\* whether its bytes decode as UTF-8.
NoIndex == [exists |-> FALSE, lines |-> <<>>, decodable |-> TRUE]

SeqRange(s) == { s[i] : i \in 1..Len(s) }

\* variant: the lines are not stripped, so that no stored line equals a
\* computed fingerprint
LoadSeenUnstripped(idx) ==
    IF ~idx.exists THEN [ok |-> TRUE, hashes |-> {}]
    ELSE IF ~idx.decodable THEN [ok |-> FALSE, hashes |-> {}]
    ELSE [ok |-> TRUE, hashes |-> {}]

\* _load_seen_hashes(): ok = FALSE when open()/decoding raises
_load_seen_hashes(idx) ==
    IF ~idx.exists THEN [ok |-> TRUE, hashes |-> {}]
    ELSE IF ~idx.decodable THEN [ok |-> FALSE, hashes |-> {}]
    ELSE [ok |-> TRUE, hashes |-> SeqRange(idx.lines)]

\* lines[-n:]
LastN(lines, n) ==
    IF Len(lines) > n THEN SubSeq(lines, Len(lines) - n + 1, Len(lines)) ELSE lines

\* variant: lines[:MAX_LINES] instead of lines[-MAX_LINES:]
RotateKeepFirst(lines) == IF Len(lines) > MAX_LINES THEN SubSeq(lines, 1, MAX_LINES) ELSE lines

\* lines 45-49: keep the last MAX_LINES lines
Rotate(lines) == IF Len(lines) > MAX_LINES THEN LastN(lines, MAX_LINES) ELSE lines

\* variant: the file is opened with "w" instead of "a"
AppendHashesOverwrite(hashes, idx) ==
    [exists |-> TRUE, lines |-> Rotate(hashes), decodable |-> idx.decodable]

\* _append_hashes(hashes) run to completion without an I/O error
_append_hashes(hashes, idx) ==
    [exists |-> TRUE, lines |-> Rotate(idx.lines \o hashes), decodable |-> idx.decodable]

RECURSIVE DedupLoopNoBatchSet(_, _, _, _)
\* variant: current_batch_hashes is never added to
DedupLoopNoBatchSet(items, i, seen_hashes, acc) ==
    IF i > Len(items) THEN acc
    ELSE LET url == items[i].url
             url_hash == _compute_hash(url)
         IN  IF url = <<>> \/ url_hash \in seen_hashes
             THEN DedupLoopNoBatchSet(items, i + 1, seen_hashes, acc)
             ELSE DedupLoopNoBatchSet(items, i + 1, seen_hashes,
                    [unique_items |-> Append(acc.unique_items, items[i]),
                     new_hashes |-> Append(acc.new_hashes, url_hash),
                     current_batch_hashes |-> acc.current_batch_hashes])

RECURSIVE DedupLoopPrepends(_, _, _, _)
\* variant: unique_items.insert(0, item) instead of unique_items.append(item)
DedupLoopPrepends(items, i, seen_hashes, acc) ==
    IF i > Len(items) THEN acc
    ELSE LET url == items[i].url
             url_hash == _compute_hash(url)
         IN  IF url = <<>> \/ url_hash \in seen_hashes \/ url_hash \in acc.current_batch_hashes
             THEN DedupLoopPrepends(items, i + 1, seen_hashes, acc)
             ELSE DedupLoopPrepends(items, i + 1, seen_hashes,
                    [unique_items |-> <<items[i]>> \o acc.unique_items,
                     new_hashes |-> Append(acc.new_hashes, url_hash),
                     current_batch_hashes |-> acc.current_batch_hashes \cup {url_hash}])

RECURSIVE DedupLoop(_, _, _, _)
\* the for loop of lines 65-80; acc carries unique_items, new_hashes and
\* current_batch_hashes
DedupLoop(items, i, seen_hashes, acc) ==
    IF i > Len(items) THEN acc
    ELSE LET url == items[i].url
             url_hash == _compute_hash(url)
         IN  IF url = <<>> THEN DedupLoop(items, i + 1, seen_hashes, acc)
             ELSE IF url_hash \in seen_hashes THEN DedupLoop(items, i + 1, seen_hashes, acc)
             ELSE IF url_hash \in acc.current_batch_hashes
                  THEN DedupLoop(items, i + 1, seen_hashes, acc)
             ELSE DedupLoop(items, i + 1, seen_hashes,
                    [unique_items |-> Append(acc.unique_items, items[i]),
                     new_hashes |-> Append(acc.new_hashes, url_hash),
                     current_batch_hashes |-> acc.current_batch_hashes \cup {url_hash}])

DedupStart == [unique_items |-> <<>>, new_hashes |-> <<>>, current_batch_hashes |-> {}]

\* variant: the hashes are persisted inside the loop, one _append_hashes call
\* per kept item
DedupAppendsPerItem(items, idx) ==
    LET loaded == _load_seen_hashes(idx)
        acc == DedupLoop(items, 1, loaded.hashes, DedupStart)
    IN  IF ~loaded.ok
        THEN [raised |-> TRUE, unique_items |-> <<>>, new_hashes |-> <<>>, index |-> idx,
              appends |-> <<>>]
        ELSE [raised |-> FALSE, unique_items |-> acc.unique_items,
              new_hashes |-> acc.new_hashes,
              index |-> IF acc.new_hashes # <<>> THEN _append_hashes(acc.new_hashes, idx)
                        ELSE idx,
              appends |-> [k \in 1..Len(acc.new_hashes) |-> <<acc.new_hashes[k]>>]]

\* deduplicate_items(items) run to completion on the index idx: whether it
\* returned (raised = FALSE), what it returned, the index afterwards and the
\* argument of every _append_hashes call it made (lines 82-83)
deduplicate_items(items, idx) ==
    LET loaded == _load_seen_hashes(idx)
        acc == DedupLoop(items, 1, loaded.hashes, DedupStart)
    IN  IF ~loaded.ok
        THEN [raised |-> TRUE, unique_items |-> <<>>, new_hashes |-> <<>>, index |-> idx,
              appends |-> <<>>]
        ELSE [raised |-> FALSE, unique_items |-> acc.unique_items,
              new_hashes |-> acc.new_hashes,
              index |-> IF acc.new_hashes # <<>> THEN _append_hashes(acc.new_hashes, idx)
                        ELSE idx,
              appends |-> IF acc.new_hashes # <<>> THEN <<acc.new_hashes>> ELSE <<>>]

\* ------------------------------------------------------------------------
\* State of the index and of a filter call
\* ------------------------------------------------------------------------
indexVars == <<index, filterRes, age>>
callVars == <<pc, fn, buf>>
vars == <<files, entries, appendRes, readRes, index, filterRes, age, pc, fn, buf, unit,
          rcall, exec, verdict, summary, today, summaryRes, titleRes, run, par>>

NoFn == [items |-> <<>>, unique_items |-> <<>>, new_hashes |-> <<>>, written |-> 0,
         lines |-> <<>>, pre |-> NoIndex, failed_at |-> "none"]
NoUnit == [pc |-> "idle", items |-> <<>>, kept |-> <<>>, pre_seen |-> {}, restarts |-> 0]

\* the two executors of retry_utils
Executors == {"run_with_retry", "run_with_retry_sync"}

NoRun == [pc |-> "idle", attempt |-> 0, calls |-> 0, delays |-> <<>>,
          e |-> NoCall, result |-> NoCall]

InitRetry ==
    /\ rcall = NoCall
    /\ exec = [x \in Executors |-> NoRun]
    /\ verdict = NoCall

\* the days a run of the model spans
MaxDays == 2
Days == 1..MaxDays

InitSummary ==
    /\ summary = [d \in Days |-> NoFile]
    /\ today = 1
    /\ summaryRes = [d \in Days |-> <<>>]

InitRun ==
    /\ titleRes = NoCall
    /\ run = [pc |-> "idle", sources |-> <<>>, i |-> 0, total_items |-> 0, offset |-> 0,
              attempt |-> 0, step |-> "none", kept |-> <<>>, selected |-> <<>>,
              filtered |-> <<>>, stages |-> <<>>, started |-> <<>>, failed |-> {},
              rotated |-> FALSE, day |-> 0]
    /\ par = NoCall

Init ==
    /\ InitLog
    /\ index = NoIndex
    /\ filterRes = NoCall
    /\ age = << >>
    /\ pc = "idle"
    /\ fn = NoFn
    /\ buf = <<>>
    /\ unit = NoUnit
    /\ InitRetry
    /\ InitSummary
    /\ InitRun

Min(a, b) == IF a < b THEN a ELSE b

\* position of the first item of kept with the url u
FirstAt(kept, u) == CHOOSE i \in 1..Len(kept) : kept[i].url = u /\ \A j \in 1..(i - 1) : kept[j].url # u

KeptUrls(kept) == { kept[i].url : i \in 1..Len(kept) }

\* bookkeeping: how many fingerprints went into the index after the one of
\* each url a call has returned, counted up to the cap
AgeAfter(a, r) ==
    [u \in (DOMAIN a) \cup KeptUrls(r.unique_items) |->
        IF u \in KeptUrls(r.unique_items)
        THEN Min(Len(r.new_hashes) - FirstAt(r.unique_items, u), MAX_LINES)
        ELSE Min(a[u] + Len(r.new_hashes), MAX_LINES)]

\* deduplicate_items(items), no I/O error, no interruption
FilterNew(items) ==
    /\ pc = "idle"
    /\ unit.pc = "idle"
    /\ \E r \in {deduplicate_items(items, index)} :
       /\ index' = r.index
       /\ filterRes' = [op |-> "filter", items |-> items, raised |-> r.raised,
                        result |-> r.unique_items, new_hashes |-> r.new_hashes,
                        before |-> index.lines, existed |-> index.exists,
                        appends |-> r.appends,
                        young |-> { u \in DOMAIN age : age[u] < MAX_LINES }]
       /\ age' = AgeAfter(age, r)
    /\ UNCHANGED <<logVars, callVars, unit, pipelineVars>>

NextIndex == \E items \in ItemLists : FilterNew(items)

\* one deduplicate_items call on an index left by earlier calls: at most
\* MAX_LINES fingerprints of urls, none twice, in any order
UrlHashes == { _compute_hash(it.url) : it \in { i \in Items : i.url # <<>> } }

IndexLines ==
    UNION { { l \in [1..n -> UrlHashes] : \A i, j \in 1..n : i # j => l[i] # l[j] } :
            n \in 1..MAX_LINES }

IndexFiles ==
    {NoIndex} \cup { [exists |-> TRUE, lines |-> l, decodable |-> TRUE] : l \in IndexLines }

InitFilter ==
    /\ InitLog
    /\ index \in IndexFiles
    /\ filterRes = NoCall
    /\ age = << >>
    /\ pc = "idle"
    /\ fn = NoFn
    /\ buf = <<>>
    /\ unit = NoUnit
    /\ InitRetry
    /\ InitSummary
    /\ InitRun

FilterOnce(items) ==
    /\ filterRes.op = "none"
    /\ FilterNew(items)

NextFilter == \E items \in FetchLists : FilterOnce(items)

\* ------------------------------------------------------------------------
\* scripts/backfill_seen_urls.py
\* ------------------------------------------------------------------------
\* the enumerations of a set: list(seen_hashes - existing_hashes) comes in the
\* iteration order of a set
Orders(S) ==
    { o \in [1..Cardinality(S) -> S] : \A i, j \in DOMAIN o : i # j => o[i] # o[j] }

\* lines 40-53: the urls found in the stage logs by the two patterns, each
\* stripped of its trailing slashes and hashed
BackfillHashes(fs) ==
    { _compute_hash(RStripSlash(u)) :
        u \in UNION { IF fs[s].exists THEN _extract_urls_from_markdown(fs[s].content) ELSE {} :
                       s \in DOMAIN fs } }

\* lines 62-68: the hashes that are not in seen_urls.txt yet
BackfillNew(fs, idx) ==
    BackfillHashes(fs) \ (IF idx.exists THEN SeqRange(idx.lines) ELSE {})

\* backfill_pd() over the stage logs (all/*.md, curated/*.md, which takes in
\* the *.filtered.md files; details/ is never written)
Backfill ==
    /\ pc = "idle"
    /\ unit.pc = "idle"
    /\ index.decodable
    /\ \E new_hashes \in Orders(BackfillNew(files, index)) :
       /\ index' = IF new_hashes # <<>> THEN _append_hashes(new_hashes, index) ELSE index
       /\ filterRes' = [op |-> "backfill",
                        urls |-> UNION { { entries[s][k].url : k \in 1..Len(entries[s]) } :
                                         s \in Stages },
                        before |-> index.lines, new_hashes |-> new_hashes,
                        rotated |-> Len(index.lines) + Len(new_hashes) > MAX_LINES]
       /\ age' = [u \in DOMAIN age |-> Min(age[u] + Len(new_hashes), MAX_LINES)]
    /\ UNCHANGED <<logVars, callVars, unit, pipelineVars>>

\* the stage logs are written, the backfill script is run once, then
\* deduplicate_items is called
NextBackfill ==
    \/ (filterRes.op = "none" /\
            \E stage \in Stages, items \in StageLists : AppendToLog(stage, items))
    \/ (filterRes.op = "none" /\ Backfill)
    \/ (filterRes.op = "backfill" /\ \E items \in StageLists : FilterNew(items))

\* ------------------------------------------------------------------------
\* deduplicate_items step by step, with I/O errors and crashes
\* ------------------------------------------------------------------------
Writing == {"append_open", "append_write", "rotate_read", "rotate_open", "rotate_write"}
Ended == {"returned", "raised", "crashed"}

\* lines 58-82: load the index, run the loop
CallStart(items) ==
    LET loaded == _load_seen_hashes(index)
        acc == DedupLoop(items, 1, loaded.hashes, DedupStart)
    IN
    /\ pc = "idle"
    /\ unit.pc = "idle"
    /\ fn' = [items |-> items,
              unique_items |-> IF loaded.ok THEN acc.unique_items ELSE <<>>,
              new_hashes |-> IF loaded.ok THEN acc.new_hashes ELSE <<>>,
              written |-> 0, lines |-> <<>>, pre |-> index,
              failed_at |-> IF loaded.ok THEN "none" ELSE "load"]
    /\ pc' = IF ~loaded.ok THEN "raised"
             ELSE IF acc.new_hashes = <<>> THEN "returned" ELSE "append_open"
    /\ buf' = <<>>
    /\ UNCHANGED <<logVars, indexVars, unit, pipelineVars>>

\* line 29: open(path, "a") creates the file
AppendOpen ==
    /\ pc = "append_open"
    /\ index' = [index EXCEPT !.exists = TRUE]
    /\ pc' = "append_write"
    /\ UNCHANGED <<logVars, filterRes, age, fn, buf, unit, pipelineVars>>

\* line 31: f.write(h + "\n") goes to the file object's buffer
AppendWrite ==
    /\ pc = "append_write"
    /\ fn.written < Len(fn.new_hashes)
    /\ buf' = Append(buf, fn.new_hashes[fn.written + 1])
    /\ fn' = [fn EXCEPT !.written = @ + 1]
    /\ UNCHANGED <<logVars, indexVars, pc, unit, pipelineVars>>

\* the buffer is flushed to the file when it fills
AppendFlush ==
    /\ pc = "append_write"
    /\ buf # <<>>
    /\ fn.written < Len(fn.new_hashes)
    /\ index' = [index EXCEPT !.lines = @ \o buf]
    /\ buf' = <<>>
    /\ UNCHANGED <<logVars, filterRes, age, pc, fn, unit, pipelineVars>>

\* leaving the with block of line 29 flushes and closes
AppendClose ==
    /\ pc = "append_write"
    /\ fn.written = Len(fn.new_hashes)
    /\ index' = [index EXCEPT !.lines = @ \o buf]
    /\ buf' = <<>>
    /\ pc' = "rotate_read"
    /\ UNCHANGED <<logVars, filterRes, age, fn, unit, pipelineVars>>

\* lines 42-45
RotateRead ==
    /\ pc = "rotate_read"
    /\ fn' = [fn EXCEPT !.lines = index.lines]
    /\ pc' = IF Len(index.lines) > MAX_LINES THEN "rotate_open" ELSE "returned"
    /\ UNCHANGED <<logVars, indexVars, buf, unit, pipelineVars>>

\* line 48: open(path, "w") truncates the file
RotateOpen ==
    /\ pc = "rotate_open"
    /\ index' = [index EXCEPT !.lines = <<>>]
    /\ pc' = "rotate_write"
    /\ UNCHANGED <<logVars, filterRes, age, fn, buf, unit, pipelineVars>>

\* line 49: writelines(new_lines), flushed on close
RotateWrite ==
    /\ pc = "rotate_write"
    /\ index' = [index EXCEPT !.lines = LastN(fn.lines, MAX_LINES)]
    /\ pc' = "returned"
    /\ UNCHANGED <<logVars, filterRes, age, fn, buf, unit, pipelineVars>>

\* an I/O call of _append_hashes raises OSError: outside the try of lines
\* 41-51 it propagates out of deduplicate_items, inside it is printed and
\* swallowed; buffered lines may or may not reach the file on the way out
IOFail ==
    /\ pc \in Writing
    /\ \E flushed \in BOOLEAN :
          index' = IF flushed /\ pc = "append_write"
                   THEN [index EXCEPT !.lines = @ \o buf] ELSE index
    /\ buf' = <<>>
    /\ fn' = [fn EXCEPT !.failed_at = pc]
    /\ pc' = IF pc \in {"append_open", "append_write"} THEN "raised" ELSE "returned"
    /\ UNCHANGED <<logVars, filterRes, age, unit, pipelineVars>>

\* the process dies: unflushed lines are lost
Crash ==
    /\ pc \in Writing
    /\ pc' = "crashed"
    /\ buf' = <<>>
    /\ UNCHANGED <<logVars, indexVars, fn, unit, pipelineVars>>

\* the call is over (returned, raised, or the process is started again)
CallEnd ==
    /\ pc \in Ended
    /\ pc' = "idle"
    /\ fn' = NoFn
    /\ UNCHANGED <<logVars, indexVars, buf, unit, pipelineVars>>

\* the bytes of seen_urls.txt are damaged outside the program
CorruptIndex ==
    /\ pc = "idle"
    /\ index.exists
    /\ index.lines # <<>>
    /\ index.decodable
    /\ index' = [index EXCEPT !.decodable = FALSE]
    /\ UNCHANGED <<logVars, filterRes, age, callVars, unit, pipelineVars>>

NextCall ==
    \/ \E items \in ItemLists : CallStart(items)
    \/ AppendOpen
    \/ AppendWrite
    \/ AppendFlush
    \/ AppendClose
    \/ RotateRead
    \/ RotateOpen
    \/ RotateWrite
    \/ IOFail
    \/ Crash
    \/ CallEnd
    \/ CorruptIndex

\* ------------------------------------------------------------------------
\* A fetch unit: deduplicate_items on the fetched items, then
\* append_to_raw_log on what it returned (fetcher_agent.py lines 70-78),
\* run again from the start when it is interrupted (main.py lines 87-104)
\* ------------------------------------------------------------------------
MaxRestarts == 1

UnitItems == { it \in Items : it.url \in {UrlA, UrlB, NoUrl} }
UnitLists == UNION { [1..n -> UnitItems] : n \in 0..MaxItems }

UnitStart(items) ==
    /\ unit.pc = "idle"
    /\ pc = "idle"
    /\ Len(entries["raw"]) + Len(items) <= MaxEntries
    /\ unit' = [pc |-> "filter", items |-> items, kept |-> <<>>,
                pre_seen |-> _load_seen_hashes(index).hashes, restarts |-> 0]
    /\ UNCHANGED <<logVars, indexVars, callVars, pipelineVars>>

UnitFilter ==
    /\ unit.pc = "filter"
    /\ \E r \in {deduplicate_items(unit.items, index)} :
       /\ index' = r.index
       /\ unit' = [unit EXCEPT !.kept = r.unique_items, !.pc = "save"]
    /\ UNCHANGED <<logVars, filterRes, age, callVars, pipelineVars>>

UnitSave ==
    /\ unit.pc = "save"
    /\ \E r \in {_append_to_log(unit.kept, files["raw"])} :
       /\ files' = [files EXCEPT !["raw"] = r.file]
       /\ entries' = [entries EXCEPT !["raw"] = @ \o r.kept]
    /\ unit' = [unit EXCEPT !.pc = "done"]
    /\ UNCHANGED <<appendRes, readRes, indexVars, callVars, pipelineVars>>

\* the run is cut short (a tool call or the model call fails, or the
\* process is stopped) and the same items are processed again from the start
UnitInterrupt ==
    /\ unit.pc \in {"filter", "save"}
    /\ unit.restarts < MaxRestarts
    /\ unit' = [unit EXCEPT !.pc = "filter", !.kept = <<>>, !.restarts = @ + 1]
    /\ UNCHANGED <<logVars, indexVars, callVars, pipelineVars>>

UnitEnd ==
    /\ unit.pc = "done"
    /\ unit' = NoUnit
    /\ UNCHANGED <<logVars, indexVars, callVars, pipelineVars>>

NextUnit ==
    \/ \E items \in UnitLists : UnitStart(items)
    \/ UnitFilter
    \/ UnitSave
    \/ UnitInterrupt
    \/ UnitEnd

\* ------------------------------------------------------------------------
\* retry_utils: is_retryable_error, run_with_retry, run_with_retry_sync
\* ------------------------------------------------------------------------
\* Texts of errors are sequences of characters.
MaxRetries == 3
MaxDelay == 2
\* outcomes the operation is scripted with: the last one repeats
MaxScript == MaxRetries + 1
\* no executor is let past this many invocations of the operation
MaxCalls == MaxRetries + 2

M429 == <<"4", "2", "9">>
M_RESOURCE_EXHAUSTED ==
    <<"R", "E", "S", "O", "U", "R", "C", "E", "_", "E", "X", "H", "A", "U", "S", "T", "E", "D">>
M_Resource_exhausted ==
    <<"R", "e", "s", "o", "u", "r", "c", "e", " ", "e", "x", "h", "a", "u", "s", "t", "e", "d">>

\* Python's `p in t` for strings
StrIn(p, t) == \E i \in 1..(Len(t) + 1) : OccursAt(t, i, p)

\* an exception raised by the operation's n-th invocation, str(e) = text
Raised(text, n) == [text |-> text, at |-> n]

\* is_retryable_error that knows only the first two markers
IsRetryableTwoMarkers(e) ==
    StrIn(M429, e.text) \/ StrIn(M_RESOURCE_EXHAUSTED, e.text)

is_retryable_error(e) ==
    LET error_str == e.text
    IN  IF StrIn(M429, error_str) \/ StrIn(M_RESOURCE_EXHAUSTED, error_str)
           \/ StrIn(M_Resource_exhausted, error_str)
        THEN TRUE
        ELSE FALSE

\* gives up one attempt early
ExceptRaisesAtMax(e, attempt, max_retries, initial_delay) ==
    IF ~is_retryable_error(e) THEN [do |-> "raise", attempt |-> attempt, error |-> e]
    ELSE LET a == attempt + 1
         IN  IF a >= max_retries THEN [do |-> "raise", attempt |-> a, error |-> e]
             ELSE [do |-> "sleep", attempt |-> a, delay |-> initial_delay * (2 ^ (a - 1))]

\* the first retry waits twice the initial delay
ExceptDoublesFirst(e, attempt, max_retries, initial_delay) ==
    IF ~is_retryable_error(e) THEN [do |-> "raise", attempt |-> attempt, error |-> e]
    ELSE LET a == attempt + 1
         IN  IF a > max_retries THEN [do |-> "raise", attempt |-> a, error |-> e]
             ELSE [do |-> "sleep", attempt |-> a, delay |-> initial_delay * (2 ^ a)]

\* the except clause of run_with_retry: what it does with the exception e
\* caught when attempt retries have been made
run_with_retry_except(e, attempt, max_retries, initial_delay) ==
    IF ~is_retryable_error(e) THEN [do |-> "raise", attempt |-> attempt, error |-> e]
    ELSE LET a == attempt + 1
         IN  IF a > max_retries THEN [do |-> "raise", attempt |-> a, error |-> e]
             ELSE [do |-> "sleep", attempt |-> a, delay |-> initial_delay * (2 ^ (a - 1))]

\* retries whatever the error is
SyncExceptRetriesAll(e, attempt, max_retries, initial_delay) ==
    LET a == attempt + 1
    IN  IF a > max_retries THEN [do |-> "raise", attempt |-> a, error |-> e]
        ELSE [do |-> "sleep", attempt |-> a, delay |-> initial_delay * (2 ^ (a - 1))]

\* raises an error of its own when the retries are used up
SyncExceptNewError(e, attempt, max_retries, initial_delay) ==
    IF ~is_retryable_error(e) THEN [do |-> "raise", attempt |-> attempt, error |-> e]
    ELSE LET a == attempt + 1
         IN  IF a > max_retries
             THEN [do |-> "raise", attempt |-> a, error |-> Raised(<<"M", "a", "x">>, 0)]
             ELSE [do |-> "sleep", attempt |-> a, delay |-> initial_delay * (2 ^ (a - 1))]

\* never gives up
SyncExceptNoLimit(e, attempt, max_retries, initial_delay) ==
    IF ~is_retryable_error(e) THEN [do |-> "raise", attempt |-> attempt, error |-> e]
    ELSE LET a == attempt + 1
         IN  [do |-> "sleep", attempt |-> a, delay |-> initial_delay * (2 ^ (a - 1))]

\* linear instead of exponential backoff
SyncExceptLinear(e, attempt, max_retries, initial_delay) ==
    IF ~is_retryable_error(e) THEN [do |-> "raise", attempt |-> attempt, error |-> e]
    ELSE LET a == attempt + 1
         IN  IF a > max_retries THEN [do |-> "raise", attempt |-> a, error |-> e]
             ELSE [do |-> "sleep", attempt |-> a, delay |-> initial_delay * a]

\* the except clause of run_with_retry_sync
run_with_retry_sync_except(e, attempt, max_retries, initial_delay) ==
    IF ~is_retryable_error(e) THEN [do |-> "raise", attempt |-> attempt, error |-> e]
    ELSE LET a == attempt + 1
         IN  IF a > max_retries THEN [do |-> "raise", attempt |-> a, error |-> e]
             ELSE [do |-> "sleep", attempt |-> a, delay |-> initial_delay * (2 ^ (a - 1))]

ExceptOf(x, e, attempt, max_retries, initial_delay) ==
    IF x = "run_with_retry"
    THEN run_with_retry_except(e, attempt, max_retries, initial_delay)
    ELSE run_with_retry_sync_except(e, attempt, max_retries, initial_delay)

\* what the operation does when invoked
Ok(v) == [kind |-> "ok", value |-> v]
Err(text) == [kind |-> "err", text |-> text]

TextBoom == <<"b", "o", "o", "m">>
Outcomes == { Ok("success"), Err(M429), Err(TextBoom) }
Scripts == UNION { [1..n -> Outcomes] : n \in 1..MaxScript }

\* the outcome of the n-th invocation
OutcomeAt(outcomes, n) == outcomes[Min(n, Len(outcomes))]

\* retry_async(max_retries, initial_delay) and retry_sync(max_retries,
\* initial_delay) around the same operation: both executors enter their loop
RetryStart(max_retries, initial_delay, outcomes) ==
    /\ rcall.op = "none"
    /\ rcall' = [op |-> "retry", max_retries |-> max_retries,
                 initial_delay |-> initial_delay, outcomes |-> outcomes]
    /\ exec' = [x \in Executors |-> [NoRun EXCEPT !.pc = "try"]]
    /\ UNCHANGED <<logVars, indexVars, callVars, unit, verdict, summaryVars, runVars>>

\* a call of the wrapper of retry_async or of retry_sync alone: the
\* executor x enters its loop
Execute(x, max_retries, initial_delay, outcomes) ==
    /\ rcall.op = "none"
    /\ rcall' = [op |-> "retry", max_retries |-> max_retries,
                 initial_delay |-> initial_delay, outcomes |-> outcomes]
    /\ exec' = [exec EXCEPT ![x] = [NoRun EXCEPT !.pc = "try"]]
    /\ UNCHANGED <<logVars, indexVars, callVars, unit, verdict, summaryVars, runVars>>

\* return await func(*args, **kwargs) / return func(*args, **kwargs)
Attempt(x) ==
    /\ exec[x].pc = "try"
    /\ exec[x].calls < MaxCalls
    /\ LET n == exec[x].calls + 1
           o == OutcomeAt(rcall.outcomes, n)
       IN  exec' = [exec EXCEPT ![x] =
                IF o.kind = "ok"
                THEN [@ EXCEPT !.calls = n, !.pc = "returned",
                               !.result = [kind |-> "returned", value |-> o.value]]
                ELSE [@ EXCEPT !.calls = n, !.pc = "except", !.e = Raised(o.text, n)]]
    /\ UNCHANGED <<logVars, indexVars, callVars, unit, rcall, verdict, summaryVars, runVars>>

\* except Exception as e: raise, or count the attempt and go to sleep
Except(x) ==
    /\ exec[x].pc = "except"
    /\ LET r == ExceptOf(x, exec[x].e, exec[x].attempt, rcall.max_retries, rcall.initial_delay)
       IN  exec' = [exec EXCEPT ![x] =
                IF r.do = "raise"
                THEN [@ EXCEPT !.attempt = r.attempt, !.pc = "raised",
                               !.result = [kind |-> "raised", error |-> r.error]]
                ELSE [@ EXCEPT !.attempt = r.attempt, !.pc = "sleep",
                               !.delays = Append(@, r.delay)]]
    /\ UNCHANGED <<logVars, indexVars, callVars, unit, rcall, verdict, summaryVars, runVars>>

\* asyncio.sleep(delay) / time.sleep(delay) is over: next turn of the loop
Wake(x) ==
    /\ exec[x].pc = "sleep"
    /\ exec' = [exec EXCEPT ![x].pc = "try"]
    /\ UNCHANGED <<logVars, indexVars, callVars, unit, rcall, verdict, summaryVars, runVars>>

\* texts is_retryable_error is asked about: a marker or a near miss of one,
\* alone or between a few characters
TextPrefixes == { <<>>, <<"4">>, <<"4", "2">>, <<"x">> }
TextCores ==
    { <<>>, M429, M_RESOURCE_EXHAUSTED, M_Resource_exhausted, <<"2">>,
      <<"r", "e", "s", "o", "u", "r", "c", "e", " ", "e", "x", "h", "a", "u", "s", "t", "e", "d">>,
      <<"R", "e", "s", "o", "u", "r", "c", "e", " ", "E", "x", "h", "a", "u", "s", "t", "e", "d">>,
      <<"R", "E", "S", "O", "U", "R", "C", "E", " ", "E", "X", "H", "A", "U", "S", "T", "E", "D">>,
      <<"R", "e", "s", "o", "u", "r", "c", "e", "_", "e", "x", "h", "a", "u", "s", "t", "e", "d">> }
TextSuffixes == { <<>>, <<"9">>, <<"2", "9">>, <<" ">> }
ErrorTexts == { p \o c \o t : p \in TextPrefixes, c \in TextCores, t \in TextSuffixes }

\* is_retryable_error(e) for an exception with str(e) = text
Classify(text) ==
    /\ verdict' = [op |-> "classify", text |-> text,
                   result |-> is_retryable_error(Raised(text, 0))]
    /\ UNCHANGED <<logVars, indexVars, callVars, unit, rcall, exec, summaryVars, runVars>>

NextMarker == \E text \in ErrorTexts : Classify(text)

\* every started executor step is eventually taken: the operation's
\* invocation returns or raises, the handler runs, the sleep ends
RetryFairness ==
    \A x \in Executors : WF_vars(Attempt(x)) /\ WF_vars(Except(x)) /\ WF_vars(Wake(x))

NextExecute ==
    \/ /\ rcall.op = "none"
       /\ \E x \in Executors, max_retries \in 0..MaxRetries, initial_delay \in 0..MaxDelay,
             outcomes \in Scripts :
             Execute(x, max_retries, initial_delay, outcomes)
    \/ \E x \in Executors : Attempt(x)
    \/ \E x \in Executors : Except(x)
    \/ \E x \in Executors : Wake(x)

NextRetry ==
    \/ /\ rcall.op = "none"
       /\ \E max_retries \in 0..MaxRetries, initial_delay \in 0..MaxDelay, outcomes \in Scripts :
             RetryStart(max_retries, initial_delay, outcomes)
    \/ \E x \in Executors : Attempt(x)
    \/ \E x \in Executors : Except(x)
    \/ \E x \in Executors : Wake(x)

\* ------------------------------------------------------------------------
\* storage.save_daily_summary
\* ------------------------------------------------------------------------
\* save_daily_summary calls a run makes on one day
MaxSaves == 2

Summaries == { <<>>, <<"s">>, <<"s", "NL", "t">> }

\* open(filename, "a") instead of "w"
SaveSummaryAppend(content, f) ==
    [exists |-> TRUE, content |-> f.content \o content]

\* the file of the day after open(filename, "w") and f.write(content)
save_daily_summary(content, f) ==
    [exists |-> TRUE, content |-> content]

SaveDailySummary(content) ==
    /\ Len(summaryRes[today]) < MaxSaves
    /\ summary' = [summary EXCEPT ![today] = save_daily_summary(content, @)]
    /\ summaryRes' = [summaryRes EXCEPT ![today] = Append(@, content)]
    /\ UNCHANGED <<logVars, indexVars, callVars, unit, retryVars, today, runVars>>

\* midnight: datetime.date.today() moves on. Every path function of
\* storage.py (lines 12-39) takes the date at the call, so from now on the
\* stage paths name the new day's files, which do not exist yet; the files of
\* the day before stay on disk and are addressed by no function any more.
NextDay ==
    /\ today < MaxDays
    /\ today' = today + 1
    /\ files' = [s \in Stages |-> NoFile]
    /\ UNCHANGED <<entries, appendRes, readRes, indexVars, callVars, unit, retryVars,
                   summary, summaryRes, runVars>>

NextSummary ==
    \/ \E content \in Summaries : SaveDailySummary(content)
    \/ NextDay

\* ------------------------------------------------------------------------
\* main.py: run_all, run_fetch_batch, process_source, run_curate,
\* run_summarize
\* ------------------------------------------------------------------------
\* A unit is one agent run under retry_async: a source, a batch or the
\* summary. The agent follows the workflow of its instruction, its judgment
\* is free, and its run may end with an error before any tool call.
MaxSources == 2    \* longest sources list
BATCH_SIZE == 2    \* scaled from 20
RunRetries == 1    \* config.get_retry_max_attempts(), scaled
RunDelay == 1      \* config.get_retry_delay_seconds()

UrlC == <<"HTTP", "/", "/", "c">>           \* http://c

\* what the fetcher agent extracts from the k-th source of the list
Feed(k) ==
    IF k % 2 = 1 THEN << MkItem(UrlA, <<"t">>, <<>>) >>
    ELSE << MkItem(UrlC, <<"t">>, <<"x">>), MkItem(UrlB, <<"t">>, <<>>) >>

\* the sources list: which sources are enabled
SourceLists ==
    UNION { { [k \in 1..n |-> [enabled |-> e[k], items |-> Feed(k)]] : e \in [1..n -> BOOLEAN] } :
            n \in 0..MaxSources }

NoPipeline ==
    [pc |-> "idle", sources |-> <<>>, i |-> 0, total_items |-> 0, offset |-> 0,
     attempt |-> 0, step |-> "none", kept |-> <<>>, selected |-> <<>>,
     filtered |-> <<>>, stages |-> <<>>, started |-> <<>>, failed |-> {},
     rotated |-> FALSE, day |-> 0]

\* first tool call of the workflow of the unit's agent
FirstStep(kind) ==
    IF kind = "source" THEN "filter" ELSE "read"

\* run_all up to the loop of run_fetch_batch
RunAll(sources) ==
    /\ run.pc = "idle"
    /\ run' = [NoPipeline EXCEPT !.pc = "fetch", !.sources = sources, !.i = 1,
                                 !.stages = <<"Fetch">>, !.day = today]
    /\ UNCHANGED <<logVars, indexVars, callVars, unit, retryVars, summaryVars, titleRes, par>>

\* lines 128-131: a source with enabled = false is passed over
SkipSource ==
    /\ run.pc = "fetch"
    /\ run.i <= Len(run.sources)
    /\ ~run.sources[run.i].enabled
    /\ run' = [run EXCEPT !.i = @ + 1]
    /\ UNCHANGED <<logVars, indexVars, callVars, unit, retryVars, summaryVars, titleRes, par>>

\* lines 133-137 and process_source up to the first attempt of run_agent
ProcessSource ==
    /\ run.pc = "fetch"
    /\ run.i <= Len(run.sources)
    /\ run.sources[run.i].enabled
    /\ run' = [run EXCEPT !.pc = "source", !.attempt = 0, !.step = FirstStep("source"),
                          !.started = Append(@, <<"fetch", run.i>>)]
    /\ UNCHANGED <<logVars, indexVars, callVars, unit, retryVars, summaryVars, titleRes, par>>

\* the fetcher agent's DEDUP step
SourceFilter ==
    /\ run.pc = "source"
    /\ run.step = "filter"
    /\ \E r \in {deduplicate_items(run.sources[run.i].items, index)} :
       /\ ~r.raised
       /\ index' = r.index
       /\ run' = [run EXCEPT !.kept = r.unique_items, !.step = "save",
                             !.rotated = @ \/ Len(r.index.lines) <
                                               Len(index.lines) + Len(r.new_hashes)]
    /\ UNCHANGED <<logVars, filterRes, age, callVars, unit, retryVars, summaryVars, titleRes, par>>

\* the fetcher agent's SAVE step
SourceSave ==
    /\ run.pc = "source"
    /\ run.step = "save"
    /\ \E r \in {_append_to_log(run.kept, files["raw"])} :
       /\ files' = [files EXCEPT !["raw"] = r.file]
       /\ entries' = [entries EXCEPT !["raw"] = @ \o r.kept]
    /\ run' = [run EXCEPT !.step = "end"]
    /\ UNCHANGED <<appendRes, readRes, indexVars, callVars, unit, retryVars, summaryVars, titleRes, par>>

\* end of the fetch loop, then run_curate up to its loop
RunCurate ==
    /\ run.pc = "fetch"
    /\ run.i > Len(run.sources)
    /\ run' = [run EXCEPT !.pc = "curate", !.offset = 0,
                          !.total_items = get_raw_item_count(files["raw"]),
                          !.stages = Append(@, "Curate")]
    /\ UNCHANGED <<logVars, indexVars, callVars, unit, retryVars, summaryVars, titleRes, par>>

\* one round of `for offset in range(0, total_items, BATCH_SIZE)` up to the
\* first attempt of run_batch
ProcessBatch ==
    /\ run.pc = "curate"
    /\ run.offset < run.total_items
    /\ run' = [run EXCEPT !.pc = "batch", !.attempt = 0, !.step = FirstStep("batch"),
                          !.started = Append(@, <<"curate", run.offset>>)]
    /\ UNCHANGED <<logVars, indexVars, callVars, unit, retryVars, summaryVars, titleRes, par>>

\* the raw items whose heading is in the text the batch read returned
ItemsIn(text) ==
    SelectSeq(entries["raw"], LAMBDA e : StrIn(<<"(">> \o e.url \o <<")">>, text))

\* the curator agent's READ to DECIDE steps: every item read is selected
\* or filtered
BatchRead(decision) ==
    /\ run.pc = "batch"
    /\ run.step = "read"
    /\ \E items \in {ItemsIn(read_raw_items_batch(files["raw"], run.offset, BATCH_SIZE))} :
       run' = [run EXCEPT !.selected = SelectSeq(items, LAMBDA e : e.url \in decision),
                          !.filtered = SelectSeq(items, LAMBDA e : e.url \notin decision),
                          !.step = "save_curated"]
    /\ UNCHANGED <<logVars, indexVars, callVars, unit, retryVars, summaryVars, titleRes, par>>

\* the curator agent's SAVE step for the selected items
BatchSaveCurated ==
    /\ run.pc = "batch"
    /\ run.step = "save_curated"
    /\ \E r \in {_append_to_log(run.selected, files["curated"])} :
       /\ files' = [files EXCEPT !["curated"] = r.file]
       /\ entries' = [entries EXCEPT !["curated"] = @ \o r.kept]
    /\ run' = [run EXCEPT !.step = "save_filtered"]
    /\ UNCHANGED <<appendRes, readRes, indexVars, callVars, unit, retryVars, summaryVars, titleRes, par>>

\* the curator agent's SAVE step for the filtered items
BatchSaveFiltered ==
    /\ run.pc = "batch"
    /\ run.step = "save_filtered"
    /\ \E r \in {_append_to_log(run.filtered, files["filtered"])} :
       /\ files' = [files EXCEPT !["filtered"] = r.file]
       /\ entries' = [entries EXCEPT !["filtered"] = @ \o r.kept]
    /\ run' = [run EXCEPT !.step = "end"]
    /\ UNCHANGED <<appendRes, readRes, indexVars, callVars, unit, retryVars, summaryVars, titleRes, par>>

\* end of the batch loop (or total_items = 0), then run_summarize up to the
\* first attempt of run_summary
RunSummarize ==
    /\ run.pc = "curate"
    /\ run.offset >= run.total_items
    /\ run' = [run EXCEPT !.pc = "summarize", !.attempt = 0,
                          !.step = FirstStep("summarize"),
                          !.stages = Append(@, "Summarize"),
                          !.started = Append(@, <<"summarize", 0>>)]
    /\ UNCHANGED <<logVars, indexVars, callVars, unit, retryVars, summaryVars, titleRes, par>>

\* the summarizer agent's READ step
SummaryRead ==
    /\ run.pc = "summarize"
    /\ run.step = "read"
    /\ readRes' = [op |-> "read", stage |-> "curated", file |-> files["curated"],
                   result |-> read_curated_log(files["curated"])]
    /\ run' = [run EXCEPT !.step = "save"]
    /\ UNCHANGED <<files, entries, appendRes, indexVars, callVars, unit, retryVars, summaryVars, titleRes, par>>

\* the summarizer agent's SAVE SUMMARY step
SummarySave(content) ==
    /\ run.pc = "summarize"
    /\ run.step = "save"
    /\ summary' = [summary EXCEPT ![today] = save_daily_summary(content, @)]
    /\ summaryRes' = [summaryRes EXCEPT ![today] = Append(@, content)]
    /\ run' = [run EXCEPT !.step = "end"]
    /\ UNCHANGED <<logVars, indexVars, callVars, unit, retryVars, today, titleRes, par>>

UnitId(r) ==
    IF r.pc = "source" THEN <<"fetch", r.i>>
    ELSE IF r.pc = "batch" THEN <<"curate", r.offset>>
    ELSE <<"summarize", 0>>

\* an error ends the loop of the stage
UnitOverEndsStage(r, error) ==
    LET f == IF error THEN r.failed \cup {UnitId(r)} ELSE r.failed
        c == [r EXCEPT !.failed = f, !.attempt = 0, !.step = "none", !.kept = <<>>,
                       !.selected = <<>>, !.filtered = <<>>]
    IN  IF r.pc = "source"
        THEN [c EXCEPT !.pc = "fetch", !.i = IF error THEN Len(r.sources) + 1 ELSE @ + 1]
        ELSE IF r.pc = "batch"
        THEN [c EXCEPT !.pc = "curate",
                       !.offset = IF error THEN r.total_items ELSE @ + BATCH_SIZE]
        ELSE [c EXCEPT !.pc = "done"]

\* an error ends run_all
UnitOverEndsRun(r, error) ==
    LET f == IF error THEN r.failed \cup {UnitId(r)} ELSE r.failed
        c == [r EXCEPT !.failed = f, !.attempt = 0, !.step = "none", !.kept = <<>>,
                       !.selected = <<>>, !.filtered = <<>>]
    IN  IF error THEN [c EXCEPT !.pc = "done"]
        ELSE IF r.pc = "source" THEN [c EXCEPT !.pc = "fetch", !.i = @ + 1]
        ELSE IF r.pc = "batch" THEN [c EXCEPT !.pc = "curate", !.offset = @ + BATCH_SIZE]
        ELSE [c EXCEPT !.pc = "done"]

\* the unit is over, with or without an error logged by `except Exception`:
\* the loop of its stage goes on, run_all returns after the summary
UnitOver(r, error) ==
    LET f == IF error THEN r.failed \cup {UnitId(r)} ELSE r.failed
        c == [r EXCEPT !.failed = f, !.attempt = 0, !.step = "none", !.kept = <<>>,
                       !.selected = <<>>, !.filtered = <<>>]
    IN  IF r.pc = "source" THEN [c EXCEPT !.pc = "fetch", !.i = @ + 1]
        ELSE IF r.pc = "batch" THEN [c EXCEPT !.pc = "curate", !.offset = @ + BATCH_SIZE]
        ELSE [c EXCEPT !.pc = "done"]

Units == {"source", "batch", "summarize"}

\* runner.run_debug returns
AgentReturns ==
    /\ run.pc \in Units
    /\ run.step = "end"
    /\ run' = UnitOver(run, FALSE)
    /\ UNCHANGED <<logVars, indexVars, callVars, unit, retryVars, summaryVars, titleRes, par>>

\* runner.run_debug raises e: run_with_retry sleeps and runs the agent
\* again, or lets e through to the `except Exception` of the unit
AgentRaises(e) ==
    /\ run.pc \in Units
    /\ \E r \in {run_with_retry_except(e, run.attempt, RunRetries, RunDelay)} :
       run' = IF r.do = "sleep"
              THEN [run EXCEPT !.attempt = r.attempt, !.step = FirstStep(run.pc),
                               !.kept = <<>>, !.selected = <<>>, !.filtered = <<>>]
              ELSE UnitOver(run, TRUE)
    /\ UNCHANGED <<logVars, indexVars, callVars, unit, retryVars, summaryVars, titleRes, par>>

RawUrls == { UrlA, UrlB, UrlC }
\* the urls the curator agent selects: none, some or all
Decisions == { {}, {UrlA, UrlB}, RawUrls }
AgentErrors == { Raised(M429, 0), Raised(TextBoom, 0) }

NextPipeline ==
    \/ (run.pc = "idle" /\ \E sources \in SourceLists : RunAll(sources))
    \/ SkipSource
    \/ ProcessSource
    \/ SourceFilter
    \/ SourceSave
    \/ RunCurate
    \/ ProcessBatch
    \/ (run.pc = "batch" /\ run.step = "read" /\ \E decision \in Decisions : BatchRead(decision))
    \/ BatchSaveCurated
    \/ BatchSaveFiltered
    \/ RunSummarize
    \/ SummaryRead
    \/ \E content \in {<<"s">>} : SummarySave(content)
    \/ AgentReturns
    \/ \E e \in AgentErrors : AgentRaises(e)

\* the date changes while run_all is in progress
RunOverMidnight ==
    /\ run.pc \notin {"idle", "done"}
    /\ NextDay

NextRunDays ==
    \/ NextPipeline
    \/ RunOverMidnight

\* batch reads of the raw stage between appends, over midnight
NextRead ==
    \/ \E items \in StageLists : AppendToLog("raw", items)
    \/ \E offset \in 0..MaxBatch, limit \in 1..MaxBatch : ReadBatch(offset, limit)
    \/ NextDay

\* ------------------------------------------------------------------------
\* Two fetch units side by side
\* ------------------------------------------------------------------------
\* Each unit runs deduplicate_items and then append_to_raw_log on what it
\* kept; a step is one read or one write of a file, with the computation
\* that follows the read.
ParUnits == {1, 2}

ParItems == { MkItem(UrlA, <<"t">>, <<>>), MkItem(UrlB, <<"t">>, <<>>) }

ParLists == UNION { [1..n -> ParItems] : n \in 0..MaxItems }

ParIdle == [pc |-> "idle", items |-> <<>>, unique_items |-> <<>>, new_hashes |-> <<>>,
            lines |-> <<>>, kept |-> <<>>, text |-> <<>>]

\* the two units are given the items of their sources
ParStart(items) ==
    /\ par = NoCall
    /\ par' = [u \in ParUnits |-> [ParIdle EXCEPT !.pc = "load", !.items = items[u]]]
    /\ UNCHANGED <<logVars, indexVars, callVars, unit, retryVars, summaryVars, titleRes, run>>

\* dedup.py line 58 (the index is read) and the loop of lines 65-80
ParLoad(u) ==
    /\ par # NoCall
    /\ par[u].pc = "load"
    /\ \E acc \in {DedupLoop(par[u].items, 1, _load_seen_hashes(index).hashes, DedupStart)} :
       par' = [par EXCEPT ![u].unique_items = acc.unique_items,
                          ![u].new_hashes = acc.new_hashes,
                          ![u].pc = IF acc.new_hashes # <<>> THEN "append_hashes"
                                    ELSE "read_log"]
    /\ UNCHANGED <<logVars, indexVars, callVars, unit, retryVars, summaryVars, titleRes, run>>

\* dedup.py lines 29-31: the new fingerprints are appended
ParAppendHashes(u) ==
    /\ par # NoCall
    /\ par[u].pc = "append_hashes"
    /\ index' = [index EXCEPT !.exists = TRUE, !.lines = @ \o par[u].new_hashes]
    /\ par' = [par EXCEPT ![u].pc = "rotate_read"]
    /\ UNCHANGED <<logVars, filterRes, age, callVars, unit, retryVars, summaryVars, titleRes, run>>

\* dedup.py lines 42-45: the index is read back and measured
ParRotateRead(u) ==
    /\ par # NoCall
    /\ par[u].pc = "rotate_read"
    /\ par' = [par EXCEPT ![u].lines = index.lines,
                          ![u].pc = IF Len(index.lines) > MAX_LINES THEN "rotate_write"
                                    ELSE "read_log"]
    /\ UNCHANGED <<logVars, indexVars, callVars, unit, retryVars, summaryVars, titleRes, run>>

\* dedup.py lines 46-49: the index is written anew from the lines read
ParRotateWrite(u) ==
    /\ par # NoCall
    /\ par[u].pc = "rotate_write"
    /\ index' = [index EXCEPT !.lines = LastN(par[u].lines, MAX_LINES)]
    /\ par' = [par EXCEPT ![u].pc = "read_log"]
    /\ UNCHANGED <<logVars, filterRes, age, callVars, unit, retryVars, summaryVars, titleRes, run>>

\* storage.py lines 138-204: the raw stage file is read and the blocks of
\* the items not found in it are built
ParReadLog(u) ==
    /\ par # NoCall
    /\ par[u].pc = "read_log"
    /\ \E r \in {_append_to_log(par[u].unique_items, files["raw"])} :
       par' = [par EXCEPT ![u].kept = r.kept,
                          ![u].text = SubSeq(r.file.content, Len(files["raw"].content) + 1,
                                             Len(r.file.content)),
                          ![u].pc = IF r.all_duplicates THEN "done" ELSE "write_log"]
    /\ UNCHANGED <<logVars, indexVars, callVars, unit, retryVars, summaryVars, titleRes, run>>

\* storage.py lines 206-207: the blocks are appended to the file as it is now
ParWriteLog(u) ==
    /\ par # NoCall
    /\ par[u].pc = "write_log"
    /\ files' = [files EXCEPT !["raw"] = [exists |-> TRUE, content |-> @.content \o par[u].text]]
    /\ entries' = [entries EXCEPT !["raw"] = @ \o par[u].kept]
    /\ par' = [par EXCEPT ![u].pc = "done"]
    /\ UNCHANGED <<appendRes, readRes, indexVars, callVars, unit, retryVars, summaryVars, titleRes, run>>

NextPar ==
    \/ (par = NoCall /\ \E items \in [ParUnits -> ParLists] : ParStart(items))
    \/ \E u \in ParUnits : ParLoad(u)
    \/ \E u \in ParUnits : ParAppendHashes(u)
    \/ \E u \in ParUnits : ParRotateRead(u)
    \/ \E u \in ParUnits : ParRotateWrite(u)
    \/ \E u \in ParUnits : ParReadLog(u)
    \/ \E u \in ParUnits : ParWriteLog(u)

\* ------------------------------------------------------------------------
\* Titles
\* ------------------------------------------------------------------------
MaxTitle == 82     \* longest run of letters in a title

Letters(n) == [i \in 1..n |-> "a"]

\* plain, padded with blanks, set in bold, broken over two lines
Titles ==
    UNION { { Letters(n),
              <<"SP">> \o Letters(n) \o <<"SP", "SP">>,
              <<"<b>">> \o Letters(n) \o <<"</b>">>,
              Letters(n \div 2) \o <<"NL">> \o Letters(n - (n \div 2)) } : n \in 0..MaxTitle }

\* _clean_title(title) as called at line 169 for an item with a title
CleanTitle(title) ==
    /\ titleRes' = [op |-> "clean", title |-> title, absent |-> FALSE,
                    cleaned |-> CleanedTitle(title), result |-> _clean_title(title)]
    /\ UNCHANGED <<logVars, indexVars, callVars, unit, retryVars, summaryVars, run, par>>

\* lines 168-169 for an item without a title: item.get("title", "No Title")
CleanAbsentTitle ==
    /\ titleRes' = [op |-> "clean", title |-> <<"NOTITLE">>, absent |-> TRUE,
                    cleaned |-> CleanedTitle(<<"NOTITLE">>),
                    result |-> _clean_title(<<"NOTITLE">>)]
    /\ UNCHANGED <<logVars, indexVars, callVars, unit, retryVars, summaryVars, run, par>>

\* one call on each title
NextTitle ==
    \/ (titleRes.op = "none" /\ \E title \in Titles : CleanTitle(title))
    \/ (titleRes.op = "none" /\ CleanAbsentTitle)

\* ------------------------------------------------------------------------
\* Specifications
\* ------------------------------------------------------------------------
\* the staged log under a single writer
SpecLog == Init /\ [][NextLog]_vars
\* the fingerprint index under a single writer, no faults
SpecIndex == Init /\ [][NextIndex]_vars
\* one deduplicate_items call from every index within the cap
SpecFilter == InitFilter /\ [][NextFilter]_vars
\* deduplicate_items step by step with I/O errors, crashes and a damaged file
\* sequences of deduplicate_items calls on an index left by earlier runs
SpecIndexFrom == InitFilter /\ [][NextIndex]_vars

SpecCall == Init /\ [][NextCall]_vars
\* fetch units with interruption and rerun
SpecUnit == Init /\ [][NextUnit]_vars
\* one operation under both retry executors
SpecRetry == Init /\ [][NextRetry]_vars
\* one executor alone, where no started step waits for ever
SpecRetryLive == Init /\ [][NextExecute]_vars /\ RetryFairness
\* the summary stage over a few days
SpecSummary == Init /\ [][NextSummary]_vars
\* is_retryable_error on error texts
SpecMarker == Init /\ [][NextMarker]_vars
\* appends and whole-file reads of the stage files
SpecStage == Init /\ [][NextStage]_vars
\* appends of items whose urls and field texts overlap
SpecText == Init /\ [][NextText]_vars
\* the backfill script between stage appends and filter calls
SpecBackfill == InitFilter /\ [][NextBackfill]_vars
\* a pipeline run during which the date may change
SpecRunDays == Init /\ [][NextRunDays]_vars
\* batch reads on an index left by earlier runs
SpecRead == InitFilter /\ [][NextRead]_vars
\* two fetch units interleaved at single file reads and writes
SpecPar == Init /\ [][NextPar]_vars
\* _clean_title on titles around the cap
SpecTitle == Init /\ [][NextTitle]_vars
\* one run of the whole pipeline
SpecPipeline == Init /\ [][NextPipeline]_vars

\* ------------------------------------------------------------------------
\* Properties
\* ------------------------------------------------------------------------
UrlCount(s, url) ==
    Cardinality({ j \in 1..Len(entries[s]) : RStripSlash(entries[s][j].url) = RStripSlash(url) })

\* C1: when a fetch unit that was interrupted and run again from the start
\* has completed, every fetched item that has a url and whose fingerprint was
\* not in the index before the first run has exactly one entry in the raw
\* stage.
RestartReprocessKeepsItems ==
    unit.pc = "done" =>
        \A i \in 1..Len(unit.items) :
            (unit.items[i].url # <<>> /\ _compute_hash(unit.items[i].url) \notin unit.pre_seen)
                => UrlCount("raw", unit.items[i].url) = 1

\* C2: in every stage file no two entries have the same url after the
\* trailing slash is stripped.
StageUrlsUnique ==
    \A s \in Stages : \A i, j \in 1..Len(entries[s]) :
        i < j => RStripSlash(entries[s][i].url) # RStripSlash(entries[s][j].url)

WithUrl(items) == Cardinality({ i \in 1..Len(items) : items[i].url # <<>> })

\* C3: for every stage, every file content reached and every item list, a
\* second append of the same list right after the first leaves the file as
\* the first left it, adds nothing and skips every item that has a url.
AppendIdempotent ==
    \A s \in Stages : \A items \in ItemLists :
        \E once \in {_append_to_log(items, files[s])} :
            \E twice \in {_append_to_log(items, once.file)} :
                /\ twice.file = once.file
                /\ twice.added = 0
                /\ twice.skipped = WithUrl(items)

\* the item at position i has a url whose fingerprint is neither in seen nor
\* the fingerprint of an earlier item of the list
FirstSeenAt(items, i, seen) ==
    /\ items[i].url # <<>>
    /\ _compute_hash(items[i].url) \notin seen
    /\ \A j \in 1..(i - 1) :
          items[j].url # <<>> => _compute_hash(items[j].url) # _compute_hash(items[i].url)

RECURSIVE FirstSeenFrom(_, _, _)
FirstSeenFrom(items, i, seen) ==
    IF i > Len(items) THEN <<>>
    ELSE (IF FirstSeenAt(items, i, seen) THEN <<items[i]>> ELSE <<>>)
             \o FirstSeenFrom(items, i + 1, seen)

\* C4: deduplicate_items returns exactly the items whose fingerprint is
\* neither in the index as it stood at the start of the call nor the
\* fingerprint of an earlier item of the same list.
FilterNewKeepsFirstSeen ==
    filterRes.op = "filter" =>
        filterRes.result = FirstSeenFrom(filterRes.items, 1, SeqRange(filterRes.before))

\* a call on two different urls with one fingerprint, none of them in the
\* index, returned the first only
CollidingPairFiltered ==
    /\ filterRes.op = "filter"
    /\ Len(filterRes.items) = 2
    /\ filterRes.items[1].url # filterRes.items[2].url
    /\ filterRes.items[2].url # <<>>
    /\ _compute_hash(filterRes.items[1].url) = _compute_hash(filterRes.items[2].url)
    /\ filterRes.result = <<filterRes.items[1]>>

\* C5: a url that an earlier call returned is dropped by every later call
\* as long as fewer than MAX_LINES fingerprints were appended after its own
\* (filterRes.young: the urls for which that held when the call started).
ReturnedUrlStaysDropped ==
    filterRes.op = "filter" =>
        \A u \in filterRes.young : u \notin KeptUrls(filterRes.result)

\* a call was given a url returned earlier and still young, and dropped it
ReturnedUrlDroppedAgain ==
    /\ filterRes.op = "filter"
    /\ \E i \in 1..Len(filterRes.items) :
          /\ filterRes.items[i].url \in filterRes.young
          /\ filterRes.items[i].url \notin KeptUrls(filterRes.result)
    /\ filterRes.result # <<>>

\* C6: after a completed _append_hashes the index has at most MAX_LINES
\* lines and they are the last min(MAX_LINES, n) lines, in order, of the
\* previous lines followed by the new fingerprints.
AppendKeepsNewest ==
    (filterRes.op = "filter" /\ filterRes.new_hashes # <<>>) =>
        LET all == filterRes.before \o filterRes.new_hashes
            m == Min(MAX_LINES, Len(all))
        IN  /\ Len(index.lines) = m
            /\ m <= MAX_LINES
            /\ \A k \in 1..m : index.lines[k] = all[Len(all) - m + k]

\* a call appended more fingerprints than the cap holds: the index is full,
\* holds the newest of them and has lost the first
RotationEvicted ==
    /\ filterRes.op = "filter"
    /\ Len(filterRes.new_hashes) > MAX_LINES
    /\ Len(index.lines) = MAX_LINES
    /\ index.lines[MAX_LINES] = filterRes.new_hashes[Len(filterRes.new_hashes)]
    /\ filterRes.new_hashes[1] \notin SeqRange(index.lines)

\* C7: after a crash during _append_hashes the index is either as it was
\* before the call or as the completed call would have left it.
AppendCrashAtomic ==
    pc = "crashed" =>
        \/ index.lines = fn.pre.lines
        \/ index.lines = _append_hashes(fn.new_hashes, fn.pre).lines

\* C8: when an I/O call on the index fails while the new fingerprints are
\* persisted, deduplicate_items still returns and every fingerprint that was
\* in the index before the call is still there.
WriteFailureTolerated ==
    (pc \in Ended /\ fn.failed_at \in Writing) =>
        /\ pc = "returned"
        /\ SeqRange(fn.pre.lines) \subseteq SeqRange(index.lines)

\* C9: a call that found the index file absent or undecodable did not fail
\* in the load and kept what it keeps on an empty index.
LoadNeverFails ==
    (pc \in Ended /\ (~fn.pre.exists \/ ~fn.pre.decodable)) =>
        /\ fn.failed_at # "load"
        /\ fn.unique_items = FirstSeenFrom(fn.items, 1, {})

\* the block of an item without the separator in front of it
BlockBody(item) == SubSeq(RenderBlock(item), Len(SEPARATOR) + 1, Len(RenderBlock(item)))

RECURSIVE BatchesFrom(_, _, _, _)
\* the blocks of read_raw_items_batch(k*B, B), ..., ((nb-1)*B, B) in order
BatchesFrom(f, k, nb, B) ==
    IF k >= nb THEN <<>>
    ELSE StrSplit(read_raw_items_batch(f, k * B, B), SEPARATOR) \o BatchesFrom(f, k + 1, nb, B)

\* C10: for every batch size B the batches at offsets 0, B, ... below the
\* number N of raw items, in order, are the N items, each once, in log order.
BatchCoverage ==
    \A B \in 1..MaxBatch :
        LET N == Len(entries["raw"])
            got == BatchesFrom(files["raw"], 0, (N + B - 1) \div B, B)
        IN  /\ Len(got) = N
            /\ \A i \in 1..N : StrStrip(got[i]) = StrStrip(BlockBody(entries["raw"][i]))

\* C11: get_raw_item_count returns the number N of items that the append
\* calls have added to the raw stage.
TotalCountIsItemCount ==
    readRes.op = "count" => readRes.result = readRes.total

\* C12: read_raw_items_batch(offset, limit) returns the empty string whenever
\* offset is at least the number of raw items, also at offset 0 when the raw
\* stage is absent or empty.
BatchPastEndIsEmpty ==
    (readRes.op = "batch" /\ readRes.offset >= readRes.total) => readRes.result = <<>>

Terminal == {"returned", "raised"}

IsRetryable(o) == o.kind = "err" /\ is_retryable_error(Raised(o.text, 0))

\* the operation fails retryably at every invocation
AlwaysRetryable(outcomes) == \A n \in 1..Len(outcomes) : IsRetryable(outcomes[n])

\* the first invocation that does not fail retryably
FirstOther(outcomes) ==
    CHOOSE n \in 1..Len(outcomes) :
        ~IsRetryable(outcomes[n]) /\ \A j \in 1..(n - 1) : IsRetryable(outcomes[j])

\* C13: when the operation fails retryably on its first k invocations,
\* k <= max_retries, and then succeeds, each executor never invokes it more
\* than k+1 times and ends by returning that success value after exactly k+1
\* invocations.
FailuresThenSuccess ==
    (rcall.op = "retry" /\ ~AlwaysRetryable(rcall.outcomes)) =>
        LET k == FirstOther(rcall.outcomes) - 1
            o == OutcomeAt(rcall.outcomes, k + 1)
        IN  (k <= rcall.max_retries /\ o.kind = "ok") =>
                \A x \in Executors :
                    /\ exec[x].calls <= k + 1
                    /\ exec[x].pc \in Terminal =>
                          /\ exec[x].result = [kind |-> "returned", value |-> o.value]
                          /\ exec[x].calls = k + 1

TwoFailuresThenSuccess ==
    /\ rcall.op = "retry" /\ rcall.max_retries = 2
    /\ \A x \in Executors : exec[x].pc = "returned" /\ exec[x].calls = 3

\* C14: no executor invokes the operation again or sleeps after an
\* invocation that failed with a non-retryable error; it ends by raising that
\* very error, with as many delays behind it as retryable failures.
NonRetryablePropagated ==
    rcall.op = "retry" =>
        \A x \in Executors :
            /\ \A n \in 1..(exec[x].calls - 1) : IsRetryable(OutcomeAt(rcall.outcomes, n))
            /\ exec[x].pc = "sleep" => is_retryable_error(exec[x].e)
            /\ LET n == exec[x].calls
                   o == OutcomeAt(rcall.outcomes, n)
               IN  (exec[x].pc \in Terminal /\ o.kind = "err" /\ ~IsRetryable(o)) =>
                       /\ exec[x].result = [kind |-> "raised", error |-> Raised(o.text, n)]
                       /\ Len(exec[x].delays) = n - 1

NonRetryableAfterRetries ==
    \E x \in Executors :
        /\ exec[x].pc = "raised" /\ exec[x].calls >= 2
        /\ ~is_retryable_error(exec[x].result.error)

\* C15: when the operation always fails retryably, no executor invokes it
\* more than max_retries + 1 times, and each ends after exactly
\* max_retries + 1 invocations by raising the error of the last invocation.
RetryExhaustion ==
    (rcall.op = "retry" /\ AlwaysRetryable(rcall.outcomes)) =>
        \A x \in Executors :
            /\ exec[x].calls <= rcall.max_retries + 1
            /\ exec[x].pc \in Terminal =>
                  /\ exec[x].calls = rcall.max_retries + 1
                  /\ exec[x].result =
                        [kind |-> "raised",
                         error |-> Raised(OutcomeAt(rcall.outcomes, exec[x].calls).text,
                                          exec[x].calls)]

ExhaustedAfterThree ==
    /\ rcall.op = "retry" /\ AlwaysRetryable(rcall.outcomes) /\ rcall.max_retries = 2
    /\ \A x \in Executors : exec[x].pc = "raised" /\ exec[x].calls = 3

\* C16: the n-th delay is initial_delay * 2^(n-1); one delay stands between
\* two invocations, at most max_retries in all, and none follows the last
\* invocation.
BackoffSchedule ==
    rcall.op = "retry" =>
        \A x \in Executors :
            LET d == exec[x].delays
            IN  /\ Len(d) <= rcall.max_retries
                /\ \A n \in 1..Len(d) :
                      d[n] = IF n = 1 THEN rcall.initial_delay ELSE 2 * d[n - 1]
                /\ Len(d) = IF exec[x].pc \in {"try", "sleep"} THEN exec[x].calls
                            ELSE exec[x].calls - 1

ThreeDelaysWaited ==
    /\ rcall.op = "retry" /\ rcall.initial_delay = 2
    /\ \E x \in Executors : exec[x].pc \in Terminal /\ exec[x].delays = <<2, 4, 8>>

\* the text holds the marker m at some position
HasMarker(text, m) ==
    \E i \in 1..Len(text) : i + Len(m) - 1 <= Len(text) /\ SubSeq(text, i, i + Len(m) - 1) = m

\* C17: is_retryable_error is true exactly of the errors whose text holds
\* "429", "RESOURCE_EXHAUSTED" or "Resource exhausted".
RetryableIffMarker ==
    verdict.op = "classify" =>
        (verdict.result <=>
            \/ HasMarker(verdict.text, M429)
            \/ HasMarker(verdict.text, M_RESOURCE_EXHAUSTED)
            \/ HasMarker(verdict.text, M_Resource_exhausted))

\* a marker inside a longer text was found
MarkerInsideFound ==
    /\ verdict.op = "classify" /\ verdict.result
    /\ verdict.text = <<"x">> \o M_Resource_exhausted \o <<" ">>

\* C18: every executor ends, returning or raising, after at most
\* max_retries + 1 invocations and at most max_retries delays.
RetryTerminates ==
    /\ [](rcall.op = "retry" =>
             \A x \in Executors :
                 /\ exec[x].calls <= rcall.max_retries + 1
                 /\ Len(exec[x].delays) <= rcall.max_retries)
    /\ \A x \in Executors : (exec[x].pc = "try") ~> (exec[x].pc \in Terminal)

AllRetriesUsed ==
    /\ rcall.op = "retry" /\ rcall.max_retries = 2
    /\ \E x \in Executors :
          exec[x].pc \in Terminal /\ exec[x].calls = 3 /\ Len(exec[x].delays) = 2

SummaryIsLastSaved ==
    \A d \in Days :
        IF summaryRes[d] = <<>> THEN summary[d] = NoFile
        ELSE summary[d] = [exists |-> TRUE, content |-> summaryRes[d][Len(summaryRes[d])]]

\* a longer summary was replaced by a shorter one, on an earlier day
SummaryReplaced ==
    /\ today = 2
    /\ Len(summaryRes[1]) = 2
    /\ Len(summaryRes[1][1]) > Len(summaryRes[1][2])
    /\ summary[1].content = summaryRes[1][2]

\* C21: reading an absent stage file gives the stage's "not found" text,
\* reading a present one gives its whole content, and get_raw_item_count is
\* 0 while the raw stage file is absent.
AbsentStageReadsSentinel ==
    /\ readRes.op = "read" =>
          readRes.result =
              IF readRes.file.exists THEN readRes.file.content
              ELSE IF readRes.stage = "raw" THEN NO_RAW_TODAY ELSE NO_CURATED_TODAY
    /\ (readRes.op = "count" /\ ~files["raw"].exists) => readRes.result = 0

AbsentRawStageRead ==
    readRes.op = "read" /\ readRes.stage = "raw" /\ ~readRes.file.exists

UrlItemCount(items) == Cardinality({ i \in 1..Len(items) : items[i].url # <<>> })

\* C22: the counts an append call reports add up to the number of its input
\* items that have a url, also when the call adds nothing.
ReportedCountsCoverUrlItems ==
    appendRes.op = "append" =>
        appendRes.message.added + appendRes.message.skipped = UrlItemCount(appendRes.items)

IsPrefix(a, b) == Len(a) <= Len(b) /\ SubSeq(b, 1, Len(a)) = a

\* C23: over every step of a pipeline run (appends, reads, batch reads, the
\* summary write, filtering against the index and its rotation) each stage
\* file stays in existence and keeps its content as a prefix of its content
\* after the step.
StageFilesAppendOnly ==
    [][\A s \in Stages :
          /\ files[s].exists => files'[s].exists
          /\ IsPrefix(files[s].content, files'[s].content)]_vars

RunWithEveryStepKind ==
    /\ run.pc = "done"
    /\ run.rotated
    /\ summary[today].exists
    /\ Len(entries["raw"]) >= 2
    /\ Len(entries["curated"]) >= 2
    /\ files["filtered"].exists

Started(kind) == SelectSeq(run.started, LAMBDA u : u[1] = kind)

\* the sources the fetch loop has reached
SourcesReached ==
    IF run.pc = "fetch" THEN run.i - 1 ELSE Min(run.i, Len(run.sources))

\* the rounds the batch loop has begun
BatchesBegun ==
    IF run.pc \in {"idle", "fetch", "source"} THEN 0
    ELSE (run.offset \div BATCH_SIZE) + (IF run.pc = "batch" THEN 1 ELSE 0)

EnabledSources(n) == SelectSeq([k \in 1..n |-> k], LAMBDA k : run.sources[k].enabled)

\* C25: the fetch units started are the enabled sources reached so far, each
\* once and in list order, and the batch units started are the offsets 0,
\* BATCH_SIZE, 2*BATCH_SIZE, ... reached so far, each once, whatever units
\* have failed; once the batch loop is over, every offset below the number
\* of raw items has had its batch.
SiblingUnitsAllProcessed ==
    /\ Started("fetch") =
           [j \in 1..Len(EnabledSources(SourcesReached)) |->
               <<"fetch", EnabledSources(SourcesReached)[j]>>]
    /\ Started("curate") = [j \in 1..BatchesBegun |-> <<"curate", (j - 1) * BATCH_SIZE>>]
    /\ run.pc \in {"curate", "batch", "summarize", "done"} => SourcesReached = Len(run.sources)
    /\ run.pc \in {"summarize", "done"} =>
           \A k \in 0..Len(entries["raw"]) :
               k * BATCH_SIZE < Len(entries["raw"]) =>
                   \E j \in 1..Len(run.started) : run.started[j] = <<"curate", k * BATCH_SIZE>>

LaterUnitsAfterFailures ==
    /\ run.pc = "done"
    /\ <<"fetch", 1>> \in run.failed
    /\ \E j \in 1..Len(run.started) : run.started[j] = <<"fetch", 2>>
    /\ <<"curate", 0>> \in run.failed
    /\ \E j \in 1..Len(run.started) : run.started[j] = <<"curate", BATCH_SIZE>>

AllStages == <<"Fetch", "Curate", "Summarize">>

\* C29: the stages of a run start in the order Fetch, Curate, Summarize,
\* each once; Curate has started only when every enabled source has been
\* processed, Summarize only when the batch loop is over, and a finished run
\* has started all three, whatever units have failed.
StagesInOrder ==
    /\ IsPrefix(run.stages, AllStages)
    /\ Len(run.stages) >= 2 =>
           /\ run.pc \notin {"fetch", "source"}
           /\ \A k \in 1..Len(run.sources) :
                  run.sources[k].enabled =>
                      /\ \E j \in 1..Len(run.started) : run.started[j] = <<"fetch", k>>
                      /\ \A j \in 1..Len(run.started) :
                             run.started[j][1] = "curate" =>
                                 \E h \in 1..(j - 1) : run.started[h] = <<"fetch", k>>
    /\ Len(run.stages) >= 3 =>
           /\ run.pc \in {"summarize", "done"}
           /\ run.offset >= run.total_items
           /\ \A j \in 1..Len(run.started) :
                  run.started[j][1] = "summarize" => j = Len(run.started)
    /\ run.pc = "done" => run.stages = AllStages

SummarizedAfterFailures ==
    /\ run.pc = "done"
    /\ \E u \in run.failed : u[1] = "fetch"
    /\ \E u \in run.failed : u[1] = "curate"
    /\ summary[today].exists

ExactCount(s, u) == Cardinality({ j \in 1..Len(entries[s]) : entries[s][j].url = u })

\* C30: every url of the raw stage has at most one entry in the curated and
\* the filtered stage taken together.
CurationOutputOnce ==
    \A i \in 1..Len(entries["raw"]) :
        ExactCount("curated", entries["raw"][i].url)
            + ExactCount("filtered", entries["raw"][i].url) <= 1

\* a is b with some elements left out
IsSubSeq(a, b) ==
    \E f \in [1..Len(a) -> 1..Len(b)] :
        /\ \A i \in 1..Len(a) : b[f[i]] = a[i]
        /\ \A i, j \in 1..Len(a) : i < j => f[i] < f[j]

\* the items that a step has added to the stage s
AddedBy(s) == SubSeq(entries'[s], Len(entries[s]) + 1, Len(entries'[s]))

\* the list that the running unit's agent passes to its next append to s
Given(s) ==
    IF s = "raw" THEN run.kept ELSE IF s = "curated" THEN run.selected ELSE run.filtered

\* C24: a step that changes a stage file puts the blocks of the items it
\* adds behind everything the file held, in the order in which these items
\* stand in the call's input list; every other step leaves the file and its
\* entries as they are.
EntriesInAppendOrder ==
    [][\A s \in Stages :
          \/ files'[s] = files[s] /\ entries'[s] = entries[s]
          \/ /\ AddedBy(s) # <<>>
             /\ IsSubSeq(AddedBy(s), Given(s))
             /\ IsPrefix(entries[s], entries'[s])
             /\ files'[s].content =
                    files[s].content
                        \o StrJoin([i \in 1..Len(AddedBy(s)) |-> RenderBlock(AddedBy(s)[i])],
                                   <<"NL">>)
                        \o <<"NL", "NL">>]_vars

\* the second source's two items stored behind the first source's item, in
\* the order of its feed, and the curated stage written by two batches
TwoCallsTwoItems ==
    /\ run.pc = "done"
    /\ Len(entries["raw"]) = 3
    /\ entries["raw"][1].url = UrlA /\ entries["raw"][2].url = UrlC
    /\ entries["raw"][3].url = UrlB
    /\ Len(entries["curated"]) = 3

\* C27: no stage holds an entry for a url u and another one for u + "/".
SlashPairStoredOnce ==
    \A s \in Stages : \A i, j \in 1..Len(entries[s]) :
        entries[s][j].url # entries[s][i].url \o <<"/">>

\* len() of a title text: "No Title" has 8 characters, "..." has 3
CharLen(t) ==
    Len(t) + 7 * Cardinality({ i \in 1..Len(t) : t[i] = "NOTITLE" })
           + 2 * Cardinality({ i \in 1..Len(t) : t[i] = "..." })

\* C28: the sanitized title has at most 80 characters; an absent or empty
\* title gives "No Title", a cleaned title of more than 80 characters gives
\* its first 77 characters and "...", any other cleaned title is kept whole.
TitleCapped ==
    titleRes.op = "clean" =>
        /\ CharLen(titleRes.result) <= 80
        /\ IF titleRes.absent \/ titleRes.title = <<>>
           THEN titleRes.result = <<"NOTITLE">>
           ELSE IF CharLen(titleRes.cleaned) > 80
           THEN /\ titleRes.result = SubSeq(titleRes.cleaned, 1, 77) \o <<"...">>
                /\ CharLen(titleRes.result) = 80
           ELSE titleRes.result = titleRes.cleaned

LongTitleCut ==
    /\ titleRes.op = "clean"
    /\ CharLen(titleRes.cleaned) = 81
    /\ CharLen(titleRes.result) = 80

\* C26: when both units are done, the raw stage holds at most one entry
\* for a url, every item a unit kept has an entry, and the fingerprint of
\* every item a unit kept is in the index.
ParallelUnitsSafe ==
    (par # NoCall /\ \A u \in ParUnits : par[u].pc = "done") =>
        /\ \A i, j \in 1..Len(entries["raw"]) :
               entries["raw"][i].url = entries["raw"][j].url => i = j
        /\ \A u \in ParUnits : \A k \in 1..Len(par[u].unique_items) :
               /\ \E i \in 1..Len(entries["raw"]) :
                      entries["raw"][i].url = par[u].unique_items[k].url
               /\ _compute_hash(par[u].unique_items[k].url) \in SeqRange(index.lines)

\* fingerprints of the items of a list, in order
HashesOf(items) == [k \in 1..Len(items) |-> _compute_hash(items[k].url)]

\* C31: a deduplicate_items call that keeps at least one item calls
\* _append_hashes exactly once, with the fingerprints of exactly the kept
\* items in input order; a call that keeps no item does not call it and leaves
\* the index as it was.
SingleAppendOfKeptHashes ==
    filterRes.op = "filter" =>
        IF filterRes.result # <<>>
        THEN filterRes.appends = <<HashesOf(filterRes.result)>>
        ELSE /\ filterRes.appends = <<>>
             /\ index.exists = filterRes.existed
             /\ index.lines = filterRes.before

KeptTwoAppendedOnce ==
    /\ filterRes.op = "filter"
    /\ Len(filterRes.result) = 2
    /\ Len(filterRes.appends) = 1
    /\ Len(filterRes.appends[1]) = 2

\* the item at position i of items is the first one with its fingerprint
FirstWithHash(items, i) ==
    /\ items[i].url # <<>>
    /\ \A j \in 1..(i - 1) :
          items[j].url = <<>> \/ _compute_hash(items[j].url) # _compute_hash(items[i].url)

\* C37: deduplicate_items returns a subsequence of its input: the kept items
\* are unchanged and in their input order, each is the first item of the
\* input with its fingerprint, no item without a url is returned, and the
\* collected fingerprints are those of the returned items only.
ResultIsSubsequenceOfFirsts ==
    (filterRes.op = "filter" /\ ~filterRes.raised) =>
        /\ \E f \in [1..Len(filterRes.result) -> 1..Len(filterRes.items)] :
              /\ \A k \in DOMAIN f : filterRes.items[f[k]] = filterRes.result[k]
              /\ \A k \in DOMAIN f : FirstWithHash(filterRes.items, f[k])
              /\ \A k, l \in DOMAIN f : k < l => f[k] < f[l]
        /\ \A k \in 1..Len(filterRes.result) : filterRes.result[k].url # <<>>
        /\ filterRes.new_hashes = HashesOf(filterRes.result)

\* [no url, u, v] with v colliding with u: only u is returned
UrllessAndRepeatLeftOut ==
    /\ filterRes.op = "filter"
    /\ Len(filterRes.items) = 3
    /\ filterRes.items[1].url = <<>>
    /\ filterRes.items[2].url # filterRes.items[3].url
    /\ _compute_hash(filterRes.items[2].url) = _compute_hash(filterRes.items[3].url)
    /\ filterRes.result = <<filterRes.items[2]>>

\* C36: after any sequence of deduplicate_items calls by one writer, from an
\* index without repeats, no fingerprint is in the index more than once,
\* rotations included.
IndexHasNoRepeats ==
    \A i, j \in 1..Len(index.lines) : i # j => index.lines[i] # index.lines[j]

\* a call whose append made the index exceed the cap, after an earlier call
RotatedByLaterCall ==
    /\ filterRes.op = "filter"
    /\ Len(filterRes.before) + Len(filterRes.new_hashes) > MAX_LINES
    /\ Len(index.lines) = MAX_LINES
    /\ \E u \in DOMAIN age : u \notin KeptUrls(filterRes.result)

\* url with at most one trailing "/" removed
StripOneSlash(u) ==
    IF u # <<>> /\ u[Len(u)] = "/" THEN SubSeq(u, 1, Len(u) - 1) ELSE u

\* the urls of the entries of the stage s
EntryUrls(s) == { entries[s][k].url : k \in 1..Len(entries[s]) }

\* C33: urls are compared after removing a single trailing "/" only: after an
\* append every given item with a url has an entry whose url equals its own
\* up to one trailing slash (so http://a// is stored next to http://a), and no
\* two entries of a stage are equal up to one trailing slash.
SingleSlashOnlyCompared ==
    (appendRes.op = "append") =>
        /\ \A i \in 1..Len(appendRes.items) :
              appendRes.items[i].url # <<>> =>
                 \E e \in EntryUrls(appendRes.stage) :
                     StripOneSlash(e) = StripOneSlash(appendRes.items[i].url)
        /\ \A k, l \in 1..Len(entries[appendRes.stage]) :
              k # l => StripOneSlash(entries[appendRes.stage][k].url)
                          # StripOneSlash(entries[appendRes.stage][l].url)

\* C35: an item with a url is skipped only if an entry with that url (up to
\* trailing slashes) is in the stage file or was added earlier in the call:
\* after an append every given item with a url has such an entry, also when
\* its url occurs in the field text of another entry.
NewItemNeverDropped ==
    (appendRes.op = "append") =>
        \A i \in 1..Len(appendRes.items) :
            appendRes.items[i].url # <<>> =>
               \E e \in EntryUrls(appendRes.stage) :
                   RStripSlash(e) = RStripSlash(appendRes.items[i].url)

\* number of offsets 0, B, 2B, ... below n
BatchesBelow(n, B) == (n + B - 1) \div B

\* C34: the batch loop never runs the curator on an empty batch: every offset
\* it issues is below the number N of raw items and read_raw_items_batch
\* returns at least one item there, and once the loop is over the offsets
\* issued are 0, B, 2B, ... below N, each once and in increasing order.
NoEmptyBatchIssued ==
    /\ run.pc = "batch" =>
          /\ run.offset < Len(entries["raw"])
          /\ ItemsIn(read_raw_items_batch(files["raw"], run.offset, BATCH_SIZE)) # <<>>
    /\ (run.pc \in {"summarize", "done"} /\ Len(entries["raw"]) >= 1) =>
          Started("curate") =
              [k \in 1..BatchesBelow(Len(entries["raw"]), BATCH_SIZE) |->
                  <<"curate", (k - 1) * BATCH_SIZE>>]

\* the raw items at the positions offset+1 .. offset+limit
RawSlice(offset, limit) ==
    SubSeq(entries["raw"], offset + 1, Min(offset + limit, Len(entries["raw"])))

\* C38: the stage operations of one run address one day, also when the date
\* changes during the run: every item the fetch stage appended to the raw
\* stage is counted by get_raw_item_count in run_curate, each batch read
\* returns the fetched items of its offsets, and a summary the run saves is
\* the summary of the day the run started on.
RunAddressesOneDay ==
    /\ run.pc \in {"curate", "batch", "summarize", "done"} =>
          run.total_items >= Len(entries["raw"])
    /\ (run.pc = "batch" /\ run.step = "read") =>
          ItemsIn(read_raw_items_batch(files["raw"], run.offset, BATCH_SIZE))
              = RawSlice(run.offset, BATCH_SIZE)
    /\ run.pc # "idle" =>
          \A d \in Days : summary[d].exists => d = run.day

\* C32: read_raw_items_batch changes no stage file and not the index, and a
\* call with the (offset, limit) of the call before it returns the same text
\* when no item was appended to the raw stage in between.
BatchReadIsPure ==
    [][(readRes'.op = "batch" /\ readRes' # readRes) =>
          /\ files' = files
          /\ index' = index
          /\ (/\ readRes.op = "batch"
              /\ readRes.offset = readRes'.offset
              /\ readRes.limit = readRes'.limit
              /\ readRes.total = readRes'.total) => readRes.result = readRes'.result]_vars

\* C39: after the backfill script has run over the stage logs without
\* reaching the cap, a deduplicate_items call returns no item whose url is
\* the url of an entry of those logs, urls with a trailing slash included.
BackfilledUrlsDropped ==
    [][(filterRes.op = "backfill" /\ ~filterRes.rotated /\ filterRes'.op = "filter") =>
          \A i \in 1..Len(filterRes'.items) :
              filterRes'.items[i].url \in filterRes.urls =>
                 filterRes'.items[i].url \notin KeptUrls(filterRes'.result)]_vars
====
